---------------------------- MODULE Spec2Model ----------------------------
(***************************************************************************)
(* Model of the GCP aggregation pipeline of research_gcp_support:          *)
(*   gcp_finder.py  GCPFinder.find_gcps, GCPFinder._deduplicate_gcps       *)
(*   gcp_filter.py  GCPFilter.filter_gcps and its per-point tests,         *)
(*                  calculate_spatial_distribution_score                   *)
(*   wrs2_utils.py  lat_lon_to_wrs2_path_row, bbox_to_wrs2_paths_rows      *)
(*   h3_utils.py    h3_cells_to_bbox, h3_cells_to_polygon                  *)
(*   noaa_gcp.py    NOAAGCPClient.find_gcps_by_bbox                        *)
(*                                                                         *)
(* Representation.                                                         *)
(*   - A GCP is a Python dict.  It is modelled as a record with one field  *)
(*     per key the code reads; each field says whether the key is absent,  *)
(*     holds None, holds float('inf') or holds a value, so that            *)
(*     dict.get(key, default) can be modelled as the code evaluates it.    *)
(*   - Coordinates are integers counting quarter-microdegrees              *)
(*     (UnitsPerDegree units to the degree), so that round(x, 6) is a real *)
(*     conversion: it rounds to the nearest multiple of 4 units.           *)
(*   - Accuracies are integers (centimetres).                              *)
(*   - Scores are fixed-point integers counting 1/ScoreOne.                *)
(***************************************************************************)
EXTENDS Integers, Sequences, FiniteSets, TLC

VARIABLES
    \* harness of _deduplicate_gcps: its argument, its result, and the
    \* result of applying it to its result
    dpc, dIn, dOut, dOut2,
    \* harness of calculate_spatial_distribution_score: its arguments and
    \* the metrics it returned
    spc, sGcps, sBbox, sMetrics,
    \* a GCPFilter object: its configuration and its last_spatial_metrics
    \* attribute; the arguments and the result of the latest filter_gcps call
    fCfg, fLast, fCalls, fIn, fBbox, fOut,
    \* a GCPFinder object: its constructor arguments and its
    \* last_spatial_metrics attribute
    finderCfg, finderLast,
    \* the find_gcps invocation on it: how many there were, where the current
    \* one stands, its arguments, its locals, the source calls it has issued,
    \* what it returned and what it raised
    gInvocations, gPc, gArgs, gThreshold, gBbox, gTarget, gPathRows, gNext,
    gUsgs, gUnique, gAll, gCalls, gFiltered, gRaised,
    \* history: the value last_spatial_metrics held when the invocation began
    gEntryLast,
    \* harness of h3_utils: the list of cells, which of the two functions
    \* have been applied to it, and what they returned
    hCells, hDone, hBox, hArea,
    \* and of wrs2_utils: a bounding box and the grid references found for it
    wBox, wRows,
    \* harness of the NOAA client: its archive cache, the arguments of
    \* find_gcps_by_bbox and what it returned
    nCache, nBox, nMax, nOut,
    \* two threads calling find_gcps on one GCPFinder (finderCfg, finderLast):
    \* where each stands, the merged list its invocation gathered, what its
    \* invocation computed and returned, and the last_spatial_metrics its
    \* caller read back
    tPc, tAll, tLocal, tReturned, tSeen

dedupVars == <<dpc, dIn, dOut, dOut2>>
scoreVars == <<spc, sGcps, sBbox, sMetrics>>
filterVars == <<fCfg, fLast, fCalls, fIn, fBbox, fOut>>
finderVars == <<finderCfg, finderLast>>
localVars == <<gThreshold, gBbox, gTarget, gPathRows, gNext, gUsgs, gUnique, gAll>>
invocationVars == <<gInvocations, gPc, gArgs, localVars, gCalls, gFiltered, gRaised,
                    gEntryLast>>
findVars == <<finderVars, invocationVars>>
cellVars == <<hCells, hDone, hBox, hArea, wBox, wRows, nCache, nBox, nMax, nOut>>
threadVars == <<tPc, tAll, tLocal, tReturned, tSeen>>
vars == <<dedupVars, scoreVars, filterVars, findVars, cellVars, threadVars>>

(***************************************************************************)
(* Python values                                                           *)
(***************************************************************************)
\* a key that is not in the dict (string-valued and number-valued fields)
AbsentS == [st |-> "absent", v |-> ""]
AbsentN == [st |-> "absent", v |-> 0]
\* a key that is in the dict with the value None
NoneS == [st |-> "none", v |-> ""]
NoneN == [st |-> "none", v |-> 0]
\* float('inf')
InfN == [st |-> "inf", v |-> 0]
Str(s) == [st |-> "val", v |-> s]
Num(n) == [st |-> "val", v |-> n]
\* a text the code searches in: the sequence of its characters
AbsentT == [st |-> "absent", v |-> <<>>]
Text(t) == [st |-> "val", v |-> t]
\* a flag
AbsentB == [st |-> "absent", v |-> FALSE]
Flag(b) == [st |-> "val", v |-> b]

\* dict.get(key, default)
Get(gcp, key, default) == IF gcp[key].st = "absent" THEN default ELSE gcp[key]

\* a dict with none of the keys the pipeline reads
EmptyDict ==
    [id |-> AbsentS, label |-> AbsentS,
     lat |-> AbsentN, lon |-> AbsentN,
     latitude |-> AbsentN, longitude |-> AbsentN,
     accuracy |-> AbsentN, rmse |-> AbsentN, error |-> AbsentN,
     type |-> AbsentT, description |-> AbsentT,
     photo_identifiable |-> AbsentB]

\* quarter-microdegrees to the degree
UnitsPerDegree == 4000000

\* round(x, 6): to the nearest microdegree (4 units), an exact half to the
\* even microdegree
Round6(x) ==
    LET r == x % 4
        q == (x - r) \div 4
    IN  CASE r = 0 -> x
          [] r = 1 -> x - 1
          [] r = 3 -> x + 1
          [] OTHER -> IF q % 2 = 0 THEN 4 * q ELSE 4 * (q + 1)

(***************************************************************************)
(* GCPFinder._deduplicate_gcps                                             *)
(***************************************************************************)
NoDedupKey == [kind |-> "none", s |-> "", lat |-> 0, lon |-> 0]

\* the location key of the mutant below: the coordinates are not rounded
DedupKeyUnrounded(gcp) ==
    LET gcp_id == Get(gcp, "id", Get(gcp, "label", NoneS))
        lat == Get(gcp, "lat", Get(gcp, "latitude", NoneN))
        lon == Get(gcp, "lon", Get(gcp, "longitude", NoneN))
    IN  IF gcp_id.st = "val" /\ gcp_id.v # ""
        THEN [kind |-> "id", s |-> gcp_id.v, lat |-> 0, lon |-> 0]
        ELSE IF lat.st # "none" /\ lon.st # "none"
             THEN [kind |-> "loc", s |-> "", lat |-> lat.v, lon |-> lon.v]
             ELSE NoDedupKey

\* the value the loop body looks up in `seen`: the id (or, when the dict has
\* no 'id' key, the label) when it is truthy, otherwise the rounded location
\* when both coordinates are not None, otherwise nothing
DedupKey(gcp) ==
    LET gcp_id == Get(gcp, "id", Get(gcp, "label", NoneS))
        lat == Get(gcp, "lat", Get(gcp, "latitude", NoneN))
        lon == Get(gcp, "lon", Get(gcp, "longitude", NoneN))
    IN  IF gcp_id.st = "val" /\ gcp_id.v # ""
        THEN [kind |-> "id", s |-> gcp_id.v, lat |-> 0, lon |-> 0]
        ELSE IF lat.st # "none" /\ lon.st # "none"
             THEN [kind |-> "loc", s |-> "",
                   lat |-> Round6(lat.v), lon |-> Round6(lon.v)]
             ELSE NoDedupKey

\* mutant of the loop body: a key found in `seen` is removed from it again
DedupStepToggle(acc, gcp) ==
    LET k == DedupKey(gcp)
    IN  IF k.kind # "none" /\ k \in acc.seen
        THEN [seen |-> acc.seen \ {k}, unique |-> acc.unique]
        ELSE [seen |-> IF k.kind = "none" THEN acc.seen ELSE acc.seen \cup {k},
              unique |-> Append(acc.unique, gcp)]

\* mutant of the loop body: the location branch forgets seen.add
DedupStepNoLocAdd(acc, gcp) ==
    LET k == DedupKey(gcp)
    IN  IF k.kind # "none" /\ k \in acc.seen
        THEN acc
        ELSE [seen |-> IF k.kind = "id" THEN acc.seen \cup {k} ELSE acc.seen,
              unique |-> Append(acc.unique, gcp)]

\* one iteration of `for gcp in gcps`
DedupStep(acc, gcp) ==
    LET k == DedupKey(gcp)
    IN  IF k.kind # "none" /\ k \in acc.seen
        THEN acc
        ELSE [seen |-> IF k.kind = "none" THEN acc.seen ELSE acc.seen \cup {k},
              unique |-> Append(acc.unique, gcp)]

RECURSIVE DedupLoop(_, _, _)
DedupLoop(gcps, i, acc) ==
    IF i > Len(gcps) THEN acc
    ELSE DedupLoop(gcps, i + 1, DedupStep(acc, gcps[i]))

\* mutant: of the records of one key the last is kept, not the first
DedupKeepLast(gcps) ==
    LET reversed == [i \in 1..Len(gcps) |-> gcps[Len(gcps) + 1 - i]]
        kept == DedupLoop(reversed, 1, [seen |-> {}, unique |-> <<>>]).unique
    IN  [i \in 1..Len(kept) |-> kept[Len(kept) + 1 - i]]

_deduplicate_gcps(gcps) ==
    DedupLoop(gcps, 1, [seen |-> {}, unique |-> <<>>]).unique

(***************************************************************************)
(* gcp_filter.py: calculate_spatial_distribution_score                     *)
(*                                                                         *)
(* The floats of the source are fixed-point integers here: a score s is    *)
(* the integer s * ScoreOne, a distance d (in coordinate units) the        *)
(* integer d * DistScale, both rounded down; square roots are integer      *)
(* square roots.  A point is <<lon, lat>>, a bounding box                  *)
(* <<min_lat, min_lon, max_lat, max_lon>>, NoBbox stands for bbox=None.    *)
(***************************************************************************)
ScoreOne == 90000
DistScale == 100
NoBbox == <<>>

Min2(a, b) == IF a <= b THEN a ELSE b
Max2(a, b) == IF a >= b THEN a ELSE b

\* int(a / b) for b > 0: the quotient truncated towards zero
TruncDiv(a, b) == IF a >= 0 THEN a \div b ELSE 0 - ((0 - a) \div b)

RECURSIVE ISqrtBetween(_, _, _)
ISqrtBetween(n, lo, hi) ==
    IF lo >= hi THEN lo
    ELSE LET mid == (lo + hi + 1) \div 2
         IN  IF mid * mid <= n THEN ISqrtBetween(n, mid, hi)
             ELSE ISqrtBetween(n, lo, mid - 1)

\* floor of the square root
ISqrt(n) == ISqrtBetween(n, 0, Min2(n, 46340))

RECURSIVE SumOver(_, _)
SumOver(f, S) ==
    IF S = {} THEN 0
    ELSE LET x == CHOOSE y \in S : TRUE IN f[x] + SumOver(f, S \ {x})

RECURSIVE SumSeq(_, _)
SumSeq(s, i) == IF i > Len(s) THEN 0 ELSE s[i] + SumSeq(s, i + 1)

SetMin(S) == CHOOSE x \in S : \A y \in S : x <= y
SetMax(S) == CHOOSE x \in S : \A y \in S : x >= y

\* mutant: a coordinate that is None counts as 0
PointOfDefaultZero(gcp) ==
    LET lat == Get(gcp, "lat", Get(gcp, "latitude", NoneN))
        lon == Get(gcp, "lon", Get(gcp, "longitude", NoneN))
    IN  <<(<<IF lon.st = "none" THEN 0 ELSE lon.v,
             IF lat.st = "none" THEN 0 ELSE lat.v>>)>>

\* what one gcp contributes to the list `points`: <<lon, lat>> when both of
\* its coordinates are not None, nothing otherwise
PointOf(gcp) ==
    LET lat == Get(gcp, "lat", Get(gcp, "latitude", NoneN))
        lon == Get(gcp, "lon", Get(gcp, "longitude", NoneN))
    IN  IF lat.st # "none" /\ lon.st # "none" THEN <<(<<lon.v, lat.v>>)>> ELSE <<>>

RECURSIVE ExtractPoints(_, _)
ExtractPoints(gcps, i) ==
    IF i > Len(gcps) THEN <<>>
    ELSE PointOf(gcps[i]) \o ExtractPoints(gcps, i + 1)

\* twice the signed area of the triangle o, a, b
Cross(o, a, b) ==
    (a[1] - o[1]) * (b[2] - o[2]) - (a[2] - o[2]) * (b[1] - o[1])

\* p -> q is a counter-clockwise edge of the convex hull of P: no point lies
\* to its right, and the points on its line lie between p and q
IsHullEdge(P, p, q) ==
    /\ p # q
    /\ \A r \in P :
        /\ Cross(p, q, r) >= 0
        /\ Cross(p, q, r) = 0 =>
            LET dot == (r[1] - p[1]) * (q[1] - p[1]) + (r[2] - p[2]) * (q[2] - p[2])
                len2 == (q[1] - p[1]) * (q[1] - p[1]) + (q[2] - p[2]) * (q[2] - p[2])
            IN  0 <= dot /\ dot <= len2

\* twice MultiPoint(points).convex_hull.area (shoelace formula over the hull
\* edges, taken about one of the points)
HullArea2(P) ==
    LET o == CHOOSE p \in P : TRUE
        E == {e \in P \X P : IsHullEdge(P, e[1], e[2])}
    IN  SumOver([e \in E |-> Cross(o, e[1], e[2])], E)

Dist2(p, q) == (p[1] - q[1]) * (p[1] - q[1]) + (p[2] - q[2]) * (p[2] - q[2])

\* np.min(distance_matrix, axis=1) with the diagonal set to infinity: for
\* every point the distance to the nearest other entry of the list
NearestDistances(points) ==
    [i \in 1..Len(points) |->
        ISqrt(SetMin({Dist2(points[i], points[j]) : j \in (1..Len(points)) \ {i}})
              * DistScale * DistScale)]

\* the cell of the 3x3 grid a coordinate falls in:
\* min(int((c - lo) / step), grid_size - 1), step = (hi - lo) / grid_size
\* if hi > lo else 1.0 (one degree)
grid_size == 3

GridIndex(c, lo, hi) ==
    IF hi > lo
    THEN Min2(TruncDiv(grid_size * (c - lo), hi - lo), grid_size - 1)
    ELSE Min2(TruncDiv(c - lo, UnitsPerDegree), grid_size - 1)

ZeroMetrics(why) ==
    [convex_hull_ratio |-> 0, avg_nearest_neighbor |-> 0, grid_coverage |-> 0,
     spread_score |-> 0, confidence_score |-> 0, warning |-> why]

\* bbox = (min(lats), min(lons), max(lats), max(lons)) of the points
BoundsOf(P) ==
    <<SetMin({p[2] : p \in P}), SetMin({p[1] : p \in P}),
      SetMax({p[2] : p \in P}), SetMax({p[1] : p \in P})>>

\* Metric 1: convex hull area over bbox area (hull2 is twice the hull area)
ConvexHullRatio(hull2, bbox_area) ==
    IF hull2 > 0 /\ bbox_area > 0
    THEN (hull2 * ScoreOne) \div (2 * bbox_area) ELSE 0

\* np.mean(nearest_distances)
AvgNearestNeighbor(points) ==
    SumSeq(NearestDistances(points), 1) \div Len(points)

\* np.sqrt((max_lat - min_lat)**2 + (max_lon - min_lon)**2)
BboxDiagonal(bbox) ==
    ISqrt(((bbox[3] - bbox[1]) * (bbox[3] - bbox[1])
           + (bbox[4] - bbox[2]) * (bbox[4] - bbox[2]))
          * DistScale * DistScale)

\* Metric 2, normalised by the diagonal of the bounding box
NormalizedAvgNN(avg_nearest_neighbor, bbox_diagonal) ==
    IF bbox_diagonal > 0
    THEN (avg_nearest_neighbor * ScoreOne) \div bbox_diagonal ELSE 0

\* Metric 3: the share of the grid's cells that hold a point
GridCoverage(P, bbox) ==
    (Cardinality({<<GridIndex(p[2], bbox[1], bbox[3]),
                    GridIndex(p[1], bbox[2], bbox[4])>> : p \in P})
     * ScoreOne) \div (grid_size * grid_size)

\* 0.4 * min(convex_hull_ratio * 2, 1.0) + 0.3 * min(normalized_avg_nn * 10, 1.0)
\* + 0.3 * grid_coverage
SpreadScore(convex_hull_ratio, normalized_avg_nn, grid_coverage) ==
    (4 * Min2(Min2(convex_hull_ratio, ScoreOne) * 2, ScoreOne)
     + 3 * Min2(Min2(normalized_avg_nn, ScoreOne) * 10, ScoreOne)
     + 3 * grid_coverage) \div 10

\* mutant: the two weights of the confidence score change places
ConfidenceScoreCountHeavy(spread_score, num_points) ==
    (3 * spread_score + 7 * Min2((num_points * ScoreOne) \div 10, ScoreOne)) \div 10

\* 0.7 * spread_score + 0.3 * min(num_points / 10.0, 1.0)
ConfidenceScore(spread_score, num_points) ==
    (7 * spread_score + 3 * Min2((num_points * ScoreOne) \div 10, ScoreOne)) \div 10

\* the dictionary returned for 2 or more points
Metrics(convex_hull_ratio, avg_nearest_neighbor, normalized_avg_nn, grid_coverage, spread_score, num_points) ==
    [convex_hull_ratio |-> convex_hull_ratio,
     avg_nearest_neighbor |-> avg_nearest_neighbor,
     normalized_avg_nn |-> normalized_avg_nn,
     grid_coverage |-> grid_coverage,
     spread_score |-> spread_score,
     confidence_score |-> ConfidenceScore(spread_score, num_points),
     num_points |-> num_points]

\* the three metrics combined into the two scores
CombineMetrics(convex_hull_ratio, avg_nearest_neighbor, normalized_avg_nn, grid_coverage, num_points) ==
    Metrics(convex_hull_ratio, avg_nearest_neighbor, normalized_avg_nn, grid_coverage,
            SpreadScore(convex_hull_ratio, normalized_avg_nn, grid_coverage),
            num_points)

\* mutant: the diagonal divides whether or not it is 0
DivisorsDiagonalUnguarded(P, n, bbox) ==
    {BboxDiagonal(bbox), n, grid_size * grid_size}

\* every number the scorer divides by for the set P of n points in the box:
\* the area of the box (lines 72-73), the number of points (np.mean, line
\* 90), the diagonal (lines 94-95), the two grid steps, which are a third
\* of the height and width, made whole here (lines 108-114), and the number
\* of grid cells (line 117); each under the condition the code tests first
Divisors(P, n, bbox) ==
    LET bbox_area == (bbox[3] - bbox[1]) * (bbox[4] - bbox[2])
        lat_step == IF bbox[3] > bbox[1] THEN bbox[3] - bbox[1] ELSE grid_size * UnitsPerDegree
        lon_step == IF bbox[4] > bbox[2] THEN bbox[4] - bbox[2] ELSE grid_size * UnitsPerDegree
    IN  (IF HullArea2(P) > 0 /\ bbox_area > 0 THEN {bbox_area} ELSE {})
        \cup {n}
        \cup (IF BboxDiagonal(bbox) > 0 THEN {BboxDiagonal(bbox)} ELSE {})
        \cup (IF lat_step > 0 /\ lon_step > 0 THEN {lat_step, lon_step} ELSE {})
        \cup {grid_size * grid_size}

\* the three metrics of the points in the box
ScoreInBox(points, P, bbox, avg_nearest_neighbor, num_points) ==
    CombineMetrics(
        ConvexHullRatio(HullArea2(P), (bbox[3] - bbox[1]) * (bbox[4] - bbox[2])),
        avg_nearest_neighbor,
        NormalizedAvgNN(avg_nearest_neighbor, BboxDiagonal(bbox)),
        GridCoverage(P, bbox),
        num_points)

\* from the second early return on: the box is the one given, or the
\* points' own when none is
ScorePoints(points, bbox_arg, num_points) ==
    IF Len(points) < 2
    THEN ZeroMetrics("Insufficient valid coordinates")
    ELSE ScoreInBox(points, {points[i] : i \in 1..Len(points)},
                    IF bbox_arg = NoBbox
                    THEN BoundsOf({points[i] : i \in 1..Len(points)})
                    ELSE bbox_arg,
                    AvgNearestNeighbor(points), num_points)

calculate_spatial_distribution_score(gcps, bbox_arg) ==
    IF Len(gcps) < 2
    THEN ZeroMetrics("Need at least 2 GCPs for spatial distribution analysis")
    ELSE ScorePoints(ExtractPoints(gcps, 1), bbox_arg, Len(gcps))

(***************************************************************************)
(* wrs2_utils.py                                                           *)
(***************************************************************************)
\* lat_lon_to_wrs2_path_row.  The centre of a box lies half-way between two
\* coordinates, so the arguments count half units (eighths of a
\* microdegree); 7.5 and 0.05 degrees are PathWidth2 and RowHeight2 of them.
HalfUnitsPerDegree == 2 * UnitsPerDegree
PathWidth2 == 60000000
RowHeight2 == 400000

lat_lon_to_wrs2_path_row(lat2, lon2) ==
    LET path0 == TruncDiv(180 * HalfUnitsPerDegree + lon2, PathWidth2) + 1
        path == IF path0 < 1 THEN 233 + path0
                ELSE IF path0 > 233 THEN path0 - 233
                ELSE path0
        row0 == IF lat2 >= 0
                THEN TruncDiv(80 * HalfUnitsPerDegree - lat2, RowHeight2) + 1
                ELSE TruncDiv(80 * HalfUnitsPerDegree + (0 - lat2), RowHeight2) + 1
        row == Max2(1, Min2(248, row0))
    IN  <<path, row>>

PairLess(a, b) == a[1] < b[1] \/ (a[1] = b[1] /\ a[2] < b[2])

\* sorted(list(S)) for a set of pairs
RECURSIVE SortedPairs(_)
SortedPairs(S) ==
    IF S = {} THEN <<>>
    ELSE LET m == CHOOSE x \in S : \A y \in S \ {x} : PairLess(x, y)
         IN  <<m>> \o SortedPairs(S \ {m})

\* mutant: only the neighbouring paths are added, not the neighbouring rows
BboxToPathRowsSameRow(box) ==
    LET min_lat == box[1]
        min_lon == box[2]
        max_lat == box[3]
        max_lon == box[4]
        corners == { <<2 * min_lat, 2 * min_lon>>, <<2 * min_lat, 2 * max_lon>>,
                     <<2 * max_lat, 2 * min_lon>>, <<2 * max_lat, 2 * max_lon>>,
                     <<min_lat + max_lat, min_lon + max_lon>> }
        path_rows == {lat_lon_to_wrs2_path_row(c[1], c[2]) : c \in corners}
        adjacent == {<<pr[1] + dp, pr[2]>> : pr \in path_rows, dp \in {-1, 0, 1}}
    IN  SortedPairs(path_rows \cup
                    {n \in adjacent : 1 <= n[1] /\ n[1] <= 233
                                      /\ 1 <= n[2] /\ n[2] <= 248})

bbox_to_wrs2_paths_rows(box) ==
    LET min_lat == box[1]
        min_lon == box[2]
        max_lat == box[3]
        max_lon == box[4]
        corners == { <<2 * min_lat, 2 * min_lon>>, <<2 * min_lat, 2 * max_lon>>,
                     <<2 * max_lat, 2 * min_lon>>, <<2 * max_lat, 2 * max_lon>>,
                     <<min_lat + max_lat, min_lon + max_lon>> }
        path_rows == {lat_lon_to_wrs2_path_row(c[1], c[2]) : c \in corners}
        adjacent == {<<pr[1] + dp, pr[2] + dr>> :
                        pr \in path_rows, dp \in {-1, 0, 1}, dr \in {-1, 0, 1}}
    IN  SortedPairs(path_rows \cup
                    {n \in adjacent : 1 <= n[1] /\ n[1] <= 233
                                      /\ 1 <= n[2] /\ n[2] <= 248})

(***************************************************************************)
(* h3_utils.py.  The h3 library is outside the repository: a cell is an    *)
(* identifier, valid when h3 knows it (CellBoundary gives its boundary,    *)
(* a counter-clockwise sequence of <<lon, lat>> vertices).                 *)
(***************************************************************************)
CellBoundary ==
    [c1 |-> << <<4, 0>>, <<8, 0>>, <<12, 6>>, <<8, 12>>, <<4, 12>>, <<0, 6>> >>,
     c2 |-> << <<12, 6>>, <<16, 6>>, <<20, 12>>, <<16, 18>>, <<12, 18>>, <<8, 12>> >>,
     c3 |-> << <<-16, -20>>, <<-12, -20>>, <<-8, -14>>, <<-12, -8>>, <<-16, -8>>,
               <<-20, -14>> >>]

is_valid_cell(cell) == cell \in DOMAIN CellBoundary

\* mutant: only the first cell's boundary is consulted
H3BboxOfFirstCell(h3_cells) ==
    IF h3_cells = <<>>
    THEN [raises |-> TRUE, box |-> NoBbox]
    ELSE IF \E i \in 1..Len(h3_cells) : ~is_valid_cell(h3_cells[i])
    THEN [raises |-> TRUE, box |-> NoBbox]
    ELSE LET vertices == {CellBoundary[h3_cells[1]][k] :
                             k \in 1..Len(CellBoundary[h3_cells[1]])}
             all_lats == {v[2] : v \in vertices}
             all_lons == {v[1] : v \in vertices}
         IN  [raises |-> FALSE,
              box |-> <<SetMin(all_lats), SetMin(all_lons),
                        SetMax(all_lats), SetMax(all_lons)>>]

\* h3_cells_to_bbox: the box, or the ValueError it raises
h3_cells_to_bbox(h3_cells) ==
    IF h3_cells = <<>>
    THEN [raises |-> TRUE, box |-> NoBbox]
    ELSE IF \E i \in 1..Len(h3_cells) : ~is_valid_cell(h3_cells[i])
    THEN [raises |-> TRUE, box |-> NoBbox]
    ELSE LET vertices == UNION {{CellBoundary[h3_cells[i]][k] :
                                    k \in 1..Len(CellBoundary[h3_cells[i]])} :
                                i \in 1..Len(h3_cells)}
             all_lats == {v[2] : v \in vertices}
             all_lons == {v[1] : v \in vertices}
         IN  [raises |-> FALSE,
              box |-> <<SetMin(all_lats), SetMin(all_lons),
                        SetMax(all_lats), SetMax(all_lons)>>]

\* h3_cells_to_polygon: the union of the valid cells' polygons, or the
\* ValueError it raises when there is none
h3_cells_to_polygon(h3_cells) ==
    LET polygons == {CellBoundary[h3_cells[i]] :
                        i \in {j \in 1..Len(h3_cells) : is_valid_cell(h3_cells[j])}}
    IN  [raises |-> polygons = {}, area |-> polygons]

(***************************************************************************)
(* gcp_filter.py: GCPFilter                                                *)
(*                                                                         *)
(* A filter object is its configuration: min_accuracy, a flag              *)
(* require_photo_identifiable, target_area (NoArea for None, otherwise the *)
(* set of the closed convex polygons whose union it is, each a             *)
(* counter-clockwise sequence of <<lon, lat>> vertices), and the optional  *)
(* thresholds min_spread_score and min_confidence_score (NoneN for None).  *)
(***************************************************************************)
NoArea == {}

\* mutant: only the 'accuracy' key is consulted
MeetsAccuracyKeyOnly(cfg, gcp) ==
    LET accuracy == Get(gcp, "accuracy", InfN)
    IN  IF accuracy.st = "inf" \/ accuracy.st = "none" THEN TRUE
        ELSE accuracy.v <= cfg.min_accuracy

\* mutant: the comparison is turned round
MeetsAccuracyReversed(cfg, gcp) ==
    LET accuracy == Get(gcp, "accuracy", Get(gcp, "rmse", Get(gcp, "error", InfN)))
    IN  IF accuracy.st = "inf" \/ accuracy.st = "none" THEN TRUE
        ELSE accuracy.v >= cfg.min_accuracy

_meets_accuracy_requirement(cfg, gcp) ==
    LET accuracy == Get(gcp, "accuracy", Get(gcp, "rmse", Get(gcp, "error", InfN)))
    IN  IF accuracy.st = "inf" \/ accuracy.st = "none" THEN TRUE
        ELSE accuracy.v <= cfg.min_accuracy

\* str.lower() on the letters
LowerCase ==
    "A" :> "a" @@ "B" :> "b" @@ "C" :> "c" @@ "D" :> "d" @@ "E" :> "e"
    @@ "F" :> "f" @@ "G" :> "g" @@ "H" :> "h" @@ "I" :> "i" @@ "J" :>
    "j" @@ "K" :> "k" @@ "L" :> "l" @@ "M" :> "m" @@ "N" :> "n" @@ "O"
    :> "o" @@ "P" :> "p" @@ "Q" :> "q" @@ "R" :> "r" @@ "S" :> "s" @@
    "T" :> "t" @@ "U" :> "u" @@ "V" :> "v" @@ "W" :> "w" @@ "X" :> "x"
    @@ "Y" :> "y" @@ "Z" :> "z"

Lower(t) ==
    [i \in 1..Len(t) |-> IF t[i] \in DOMAIN LowerCase THEN LowerCase[t[i]] ELSE t[i]]

\* indicator in text
Contains(text, indicator) ==
    \E i \in 0..(Len(text) - Len(indicator)) :
        SubSeq(text, i + 1, i + Len(indicator)) = indicator

identifiable_types ==
    << <<"r", "o", "a", "d", " ", "i", "n", "t", "e", "r", "s", "e", "c", "t", "i", "o", "n">>,
       <<"b", "u", "i", "l", "d", "i", "n", "g", " ", "c", "o", "r", "n", "e", "r">>,
       <<"c", "o", "r", "n", "e", "r">>,
       <<"i", "n", "t", "e", "r", "s", "e", "c", "t", "i", "o", "n">>,
       <<"l", "a", "n", "d", "m", "a", "r", "k">>,
       <<"s", "t", "r", "u", "c", "t", "u", "r", "e">>,
       <<"m", "a", "r", "k", "e", "r">> >>

\* mutant: without an indicator the record is not photo-identifiable
IsPhotoIdentifiableStrict(gcp) ==
    LET gcp_type == Lower(Get(gcp, "type", Text(<<>>)).v)
        description == Lower(Get(gcp, "description", Text(<<>>)).v)
    IN  IF \E k \in 1..Len(identifiable_types) :
               Contains(gcp_type, identifiable_types[k]) THEN TRUE
        ELSE IF \E k \in 1..Len(identifiable_types) :
               Contains(description, identifiable_types[k]) THEN TRUE
        ELSE IF Get(gcp, "photo_identifiable", Flag(FALSE)).v THEN TRUE
        ELSE FALSE

_is_photo_identifiable(gcp) ==
    LET gcp_type == Lower(Get(gcp, "type", Text(<<>>)).v)
        description == Lower(Get(gcp, "description", Text(<<>>)).v)
    IN  IF \E k \in 1..Len(identifiable_types) :
               Contains(gcp_type, identifiable_types[k]) THEN TRUE
        ELSE IF \E k \in 1..Len(identifiable_types) :
               Contains(description, identifiable_types[k]) THEN TRUE
        ELSE IF Get(gcp, "photo_identifiable", Flag(FALSE)).v THEN TRUE
        ELSE TRUE

\* the point lies in the closed convex polygon: on no edge's right
InClosedPolygon(poly, pt) ==
    \A k \in 1..Len(poly) :
        Cross(poly[k], poly[(k % Len(poly)) + 1], pt) >= 0

\* mutant: a record without coordinates passes the area test
InTargetAreaCoordlessPass(cfg, gcp) ==
    IF cfg.target_area = NoArea THEN TRUE
    ELSE LET lat == Get(gcp, "lat", Get(gcp, "latitude", NoneN))
             lon == Get(gcp, "lon", Get(gcp, "longitude", NoneN))
         IN  IF lat.st = "none" \/ lon.st = "none" THEN TRUE
             ELSE \E poly \in cfg.target_area :
                     InClosedPolygon(poly, <<lon.v, lat.v>>)

\* target_area.contains(point) or target_area.touches(point)
_is_in_target_area(cfg, gcp) ==
    IF cfg.target_area = NoArea THEN TRUE
    ELSE LET lat == Get(gcp, "lat", Get(gcp, "latitude", NoneN))
             lon == Get(gcp, "lon", Get(gcp, "longitude", NoneN))
         IN  IF lat.st = "none" \/ lon.st = "none" THEN FALSE
             ELSE \E poly \in cfg.target_area :
                     InClosedPolygon(poly, <<lon.v, lat.v>>)

\* the body of `for gcp in gcps`: whether gcp is appended to `filtered`
PassesPerPoint(cfg, gcp) ==
    IF ~_meets_accuracy_requirement(cfg, gcp) THEN FALSE
    ELSE IF cfg.require_photo_identifiable /\ ~_is_photo_identifiable(gcp) THEN FALSE
    ELSE IF cfg.target_area # NoArea /\ ~_is_in_target_area(cfg, gcp) THEN FALSE
    ELSE TRUE

RECURSIVE PerPointFiltered(_, _, _)
PerPointFiltered(cfg, gcps, i) ==
    IF i > Len(gcps) THEN <<>>
    ELSE (IF PassesPerPoint(cfg, gcps[i]) THEN <<gcps[i]>> ELSE <<>>)
         \o PerPointFiltered(cfg, gcps, i + 1)

\* mutant: a score equal to its threshold is rejected too
RejectsSetOnEqual(cfg, spatial_metrics) ==
    \/ /\ cfg.min_spread_score.st # "none"
       /\ spatial_metrics.spread_score <= cfg.min_spread_score.v
    \/ /\ cfg.min_confidence_score.st # "none"
       /\ spatial_metrics.confidence_score <= cfg.min_confidence_score.v

\* the two `return []` of the set-level block
RejectsSet(cfg, spatial_metrics) ==
    \/ /\ cfg.min_spread_score.st # "none"
       /\ spatial_metrics.spread_score < cfg.min_spread_score.v
    \/ /\ cfg.min_confidence_score.st # "none"
       /\ spatial_metrics.confidence_score < cfg.min_confidence_score.v

\* lines 219-230: the set-level block and the return
ApplyThresholds(cfg, filtered, spatial_metrics) ==
    [out |-> IF RejectsSet(cfg, spatial_metrics) THEN <<>> ELSE filtered,
     stored |-> TRUE, metrics |-> spatial_metrics]

\* mutant: the set-level block is entered from one survivor on
CheckSetFromOne(cfg, filtered, bbox) ==
    IF Len(filtered) >= 1
    THEN ApplyThresholds(cfg, filtered,
                         calculate_spatial_distribution_score(filtered, bbox))
    ELSE [out |-> filtered, stored |-> FALSE, metrics |-> ZeroMetrics("")]

\* lines 203-230, on the list `filtered` of the loop
CheckSet(cfg, filtered, bbox) ==
    IF Len(filtered) >= 2
    THEN ApplyThresholds(cfg, filtered,
                         calculate_spatial_distribution_score(filtered, bbox))
    ELSE [out |-> filtered, stored |-> FALSE, metrics |-> ZeroMetrics("")]

\* filter_gcps: the list it returns, and the metrics it stores in
\* self.last_spatial_metrics (stored says whether it stores any)
filter_gcps(cfg, gcps, bbox) == CheckSet(cfg, PerPointFiltered(cfg, gcps, 1), bbox)

(***************************************************************************)
(* noaa_gcp.py: NOAAGCPClient.find_gcps_by_bbox                            *)
(*                                                                         *)
(* cache is self._gcps_cache: st is "none" for None, otherwise v is the    *)
(* list loaded from the archive, which is never empty (line 65).  The      *)
(* result is the list returned (st "list") or, with no cache, the mock     *)
(* data of line 137 (st "mock").                                           *)
(***************************************************************************)
find_gcps_by_bbox(cache, bbox, max_results) ==
    LET RECURSIVE scan(_, _)
        \* lines 104-115: `for gcp in self._gcps_cache` from the i-th on
        scan(i, filtered_gcps) ==
            IF i > Len(cache.v) THEN filtered_gcps
            ELSE LET gcp == cache.v[i]
                     lat == Get(gcp, "lat", NoneN)
                     lon == Get(gcp, "lon", NoneN)
                 IN  IF lat.st = "none" \/ lon.st = "none"
                     THEN scan(i + 1, filtered_gcps)
                     ELSE IF /\ bbox[1] <= lat.v /\ lat.v <= bbox[3]
                             /\ bbox[2] <= lon.v /\ lon.v <= bbox[4]
                     THEN LET appended == Append(filtered_gcps, gcp)
                          IN  IF Len(appended) >= max_results THEN appended
                              ELSE scan(i + 1, appended)
                     ELSE scan(i + 1, filtered_gcps)
        filtered == IF cache.st = "none" THEN <<>> ELSE scan(1, <<>>)
    IN  IF filtered # <<>> THEN [st |-> "list", v |-> filtered]
        ELSE IF cache.st = "none" THEN [st |-> "mock", v |-> <<>>]
        ELSE [st |-> "list", v |-> <<>>]

(***************************************************************************)
(* gcp_finder.py: GCPFinder.find_gcps                                      *)
(*                                                                         *)
(* The arguments are a record: bbox (NoBbox for None), h3_cells (NoCells   *)
(* for None, otherwise the list), use_wrs2, max_results and                *)
(* min_gcp_threshold (NoneN for None).  The source clients are outside the *)
(* orchestrator: a call to one returns a list or raises.                   *)
(***************************************************************************)
NoCells == [st |-> "none", v |-> <<>>]
Cells(l) == [st |-> "val", v |-> l]

\* mutant: NOAA is searched when the count equals the threshold too
BelowThresholdOrEqual(unique_usgs_gcps, thr) == Len(unique_usgs_gcps) <= thr

\* `if len(unique_usgs_gcps) < threshold`
BelowThreshold(unique_usgs_gcps, thr) == Len(unique_usgs_gcps) < thr

\* mutant: the target area is built only when the box came from the cells
ResolveAreaNoTargetWithBbox(self, a) ==
    LET thr == IF a.min_gcp_threshold.st # "none" THEN a.min_gcp_threshold.v
               ELSE self.min_gcp_threshold
        from_cells == h3_cells_to_bbox(a.h3_cells.v)
        raises == a.bbox = NoBbox /\ (a.h3_cells.st = "none" \/ from_cells.raises)
        box == IF a.bbox = NoBbox THEN from_cells.box ELSE a.bbox
        polygon == h3_cells_to_polygon(a.h3_cells.v)
        area == IF a.bbox = NoBbox /\ a.h3_cells.st = "val" /\ a.h3_cells.v # <<>>
                   /\ ~polygon.raises
                THEN polygon.area ELSE NoArea
    IN  [raises |-> raises, threshold |-> thr, box |-> box, area |-> area]

\* mutant: the threshold argument is ignored
ResolveAreaConstructorThreshold(self, a) ==
    LET from_cells == h3_cells_to_bbox(a.h3_cells.v)
        raises == a.bbox = NoBbox /\ (a.h3_cells.st = "none" \/ from_cells.raises)
        box == IF a.bbox = NoBbox THEN from_cells.box ELSE a.bbox
        polygon == h3_cells_to_polygon(a.h3_cells.v)
        area == IF a.h3_cells.st = "val" /\ a.h3_cells.v # <<>> /\ ~polygon.raises
                THEN polygon.area ELSE NoArea
    IN  [raises |-> raises, threshold |-> self.min_gcp_threshold, box |-> box, area |-> area]

\* lines 96-111: the threshold, the bounding box and the target area of the
\* invocation, or the ValueError raised for want of an area
ResolveArea(self, a) ==
    LET thr == IF a.min_gcp_threshold.st # "none" THEN a.min_gcp_threshold.v
               ELSE self.min_gcp_threshold
        from_cells == h3_cells_to_bbox(a.h3_cells.v)
        raises == a.bbox = NoBbox /\ (a.h3_cells.st = "none" \/ from_cells.raises)
        box == IF a.bbox = NoBbox THEN from_cells.box ELSE a.bbox
        polygon == h3_cells_to_polygon(a.h3_cells.v)
        area == IF a.h3_cells.st = "val" /\ a.h3_cells.v # <<>> /\ ~polygon.raises
                THEN polygon.area ELSE NoArea
    IN  [raises |-> raises, threshold |-> thr, box |-> box, area |-> area]

\* mutant: the attribute is assigned only when the filter computed metrics
StoredMetricsWhenComputed(r) ==
    [filtered_gcps |-> r.out,
     last_spatial_metrics |-> IF r.stored THEN [set |-> TRUE, m |-> r.metrics]
                              ELSE finderLast]

\* line 165: getattr(filter_obj, 'last_spatial_metrics', None), beside the
\* list the filter returned (r is what filter_gcps did)
StoredMetrics(r) ==
    [filtered_gcps |-> r.out,
     last_spatial_metrics |-> IF r.stored THEN [set |-> TRUE, m |-> r.metrics]
                              ELSE [set |-> FALSE, m |-> ZeroMetrics("")]]

\* lines 154-165: the filter object built for the invocation, the list it
\* returns and the value stored in self.last_spatial_metrics
FilterMerged(self, area, all_gcps, box) ==
    StoredMetrics(filter_gcps([min_accuracy |-> self.min_accuracy,
                               require_photo_identifiable |-> self.require_photo_identifiable,
                               target_area |-> area,
                               min_spread_score |-> self.min_spread_score,
                               min_confidence_score |-> self.min_confidence_score],
                              all_gcps, box))

(***************************************************************************)
(* Inputs of the harnesses                                                 *)
(***************************************************************************)
RECURSIVE SeqsUpTo(_, _)
SeqsUpTo(S, n) ==
    IF n = 0 THEN {<<>>}
    ELSE LET shorter == SeqsUpTo(S, n - 1)
         IN  shorter \cup {Append(s, x) : s \in {t \in shorter : Len(t) = n - 1}, x \in S}

RECURSIVE PickFrom(_, _, _)
PickFrom(s, I, i) ==
    IF i > Len(s) THEN <<>>
    ELSE (IF i \in I THEN <<s[i]>> ELSE <<>>) \o PickFrom(s, I, i + 1)

\* every subsequence of the first n entries of pool
SubSeqsOf(pool, n) ==
    {PickFrom(SubSeq(pool, 1, n), I, 1) : I \in SUBSET (1..n)}

Rec(id, label, lat, lon) ==
    [EmptyDict EXCEPT !.id = id, !.label = label, !.lat = lat, !.lon = lon]

\* a record as the source clients build it
Gcp(id, lat, lon, accuracy) ==
    [EmptyDict EXCEPT !.id = Str(id), !.lat = Num(lat), !.lon = Num(lon),
                      !.accuracy = accuracy]

UnsetMetrics == [set |-> FALSE, m |-> ZeroMetrics("")]

DedupParked == dpc = "off" /\ dIn = <<>> /\ dOut = <<>> /\ dOut2 = <<>>

ScoreParked ==
    spc = "off" /\ sGcps = <<>> /\ sBbox = NoBbox /\ sMetrics = ZeroMetrics("")

FilterParked ==
    /\ fCfg = [min_accuracy |-> 0, require_photo_identifiable |-> FALSE,
               target_area |-> NoArea, min_spread_score |-> NoneN,
               min_confidence_score |-> NoneN]
    /\ fLast = UnsetMetrics /\ fCalls = 0
    /\ fIn = <<>> /\ fBbox = NoBbox /\ fOut = <<>>

FinderParked ==
    /\ finderCfg = [min_gcp_threshold |-> 0, min_accuracy |-> 0,
                    require_photo_identifiable |-> FALSE,
                    min_spread_score |-> NoneN, min_confidence_score |-> NoneN]
    /\ finderLast = UnsetMetrics

InvocationParked ==
    /\ gInvocations = 0 /\ gPc = "off"
    /\ gArgs = [bbox |-> NoBbox, h3_cells |-> NoCells, use_wrs2 |-> FALSE,
                max_results |-> 0, min_gcp_threshold |-> NoneN]
    /\ gThreshold = 0 /\ gBbox = NoBbox /\ gTarget = NoArea
    /\ gPathRows = <<>> /\ gNext = 1
    /\ gUsgs = <<>> /\ gUnique = <<>> /\ gAll = <<>>
    /\ gCalls = <<>> /\ gFiltered = <<>> /\ gRaised = ""
    /\ gEntryLast = UnsetMetrics

FindParked == FinderParked /\ InvocationParked

CellsParked ==
    /\ hCells = <<>> /\ hDone = {}
    /\ hBox = [raises |-> FALSE, box |-> NoBbox]
    /\ hArea = [raises |-> FALSE, area |-> NoArea]
    /\ wBox = NoBbox /\ wRows = <<>>
    /\ nCache = [st |-> "none", v |-> <<>>] /\ nBox = NoBbox /\ nMax = 0
    /\ nOut = [st |-> "off", v |-> <<>>]

ThreadsParked ==
    tPc = <<>> /\ tAll = <<>> /\ tLocal = <<>> /\ tReturned = <<>> /\ tSeen = <<>>

(***************************************************************************)
(* Harness of _deduplicate_gcps: the input is any short list of the        *)
(* records below; the function is applied to it and then to its own result *)
(***************************************************************************)
MaxDedupLen == 3

DedupRecords ==
    { Rec(Str("A"), AbsentS, Num(40), Num(40)),       \* id A
      Rec(Str("A"), Str("x"), Num(80), Num(80)),      \* id A elsewhere
      Rec(AbsentS, AbsentS, Num(13), Num(9)),         \* rounds to (12, 8)
      Rec(AbsentS, AbsentS, Num(11), Num(7)),         \* rounds to (12, 8)
      Rec(AbsentS, Str("L1"), Num(13), Num(9)),       \* label only
      Rec(AbsentS, Str("L2"), Num(13), Num(9)),       \* other label, same place
      Rec(AbsentS, Str("A"), Num(-40), Num(-40)),     \* label equal to an id
      Rec(Str(""), Str("L1"), Num(11), Num(7)),       \* empty id
      Rec(NoneS, AbsentS, NoneN, AbsentN),            \* id None, lat None
      EmptyDict }                                     \* no id, no coordinates

DedupInit ==
    /\ dpc = "input"
    /\ dIn \in SeqsUpTo(DedupRecords, MaxDedupLen)
    /\ dOut = <<>>
    /\ dOut2 = <<>>
    /\ ScoreParked /\ FilterParked /\ FindParked
    /\ CellsParked /\ ThreadsParked

DedupOnce ==
    /\ dpc = "input"
    /\ dOut' = _deduplicate_gcps(dIn)
    /\ dpc' = "once"
    /\ UNCHANGED <<dIn, dOut2, scoreVars, filterVars, findVars,
                   cellVars, threadVars>>

DedupTwice ==
    /\ dpc = "once"
    /\ dOut2' = _deduplicate_gcps(dOut)
    /\ dpc' = "twice"
    /\ UNCHANGED <<dIn, dOut, scoreVars, filterVars, findVars,
                   cellVars, threadVars>>

DedupNext == DedupOnce \/ DedupTwice

SpecDedup == DedupInit /\ [][DedupNext]_vars

(***************************************************************************)
(* Harness of calculate_spatial_distribution_score: the list is any        *)
(* subsequence of ScorePool, the box one of ScoreBoxes                     *)
(***************************************************************************)
MaxScorePool == 12

ScorePool ==
    << Gcp("s1", 1, 1, Num(30)),
       Gcp("s2", 1, 6, Num(30)),
       Gcp("s3", 1, 11, Num(30)),
       Gcp("s4", 6, 1, Num(30)),
       Gcp("s5", 6, 6, Num(30)),
       Gcp("s6", 11, 11, Num(30)),
       Gcp("s7", 6, 11, Num(30)),
       Gcp("s8", 11, 1, Num(30)),
       Gcp("s9", -5, -5, Num(30)),                       \* outside the box
       Gcp("s10", -5, 6, Num(30)),                       \* outside the box
       [EmptyDict EXCEPT !.id = Str("s11")],             \* no coordinates
       Gcp("s12", 6, 6, Num(30)),                        \* where s5 is
       Gcp("s13", 11, 6, Num(30)) >>

\* no box, a square, and boxes of no height, of no width and of no extent
ScoreBoxes ==
    { NoBbox, <<0, 0, 12, 12>>, <<6, 0, 6, 12>>, <<0, 6, 12, 6>>, <<6, 6, 6, 6>> }

\* a clustered set: records in the middle of ClusterBox, no farther from
\* its centre than a tenth of its height and width
ClusterBox == <<0, 0, 60, 60>>

ClusterPool ==
    << Gcp("k1", 24, 24, Num(30)),
       Gcp("k2", 24, 36, Num(30)),
       Gcp("k3", 36, 24, Num(30)),
       Gcp("k4", 36, 36, Num(30)),
       Gcp("k5", 30, 30, Num(30)),
       Gcp("k6", 24, 30, Num(30)),
       Gcp("k7", 30, 24, Num(30)),
       Gcp("k8", 30, 36, Num(30)),
       Gcp("k9", 36, 30, Num(30)),
       Gcp("k10", 27, 27, Num(30)),
       Gcp("k11", 33, 33, Num(30)),
       Gcp("k12", 27, 33, Num(30)),
       Gcp("k13", 33, 27, Num(30)) >>

ScoreInit ==
    /\ spc = "input"
    /\ \/ /\ sGcps \in SubSeqsOf(ScorePool, MaxScorePool)
          /\ sBbox \in ScoreBoxes
       \/ /\ sGcps \in SubSeqsOf(ClusterPool, MaxScorePool)
          /\ sBbox = ClusterBox
    /\ sMetrics = ZeroMetrics("")
    /\ DedupParked /\ FilterParked /\ FindParked
    /\ CellsParked /\ ThreadsParked

Score ==
    /\ spc = "input"
    /\ sMetrics' = calculate_spatial_distribution_score(sGcps, sBbox)
    /\ spc' = "scored"
    /\ UNCHANGED <<sGcps, sBbox, dedupVars, filterVars, findVars,
                   cellVars, threadVars>>

ScoreNext == Score

SpecScore == ScoreInit /\ [][ScoreNext]_vars

(***************************************************************************)
(* Harness of GCPFilter: a filter object is constructed with one of the    *)
(* configurations below and filter_gcps is called on it, up to             *)
(* MaxFilterCalls times, with any subsequence of FilterPool and a box of   *)
(* FilterBoxes                                                             *)
(***************************************************************************)
MaxFilterPool == 4
MaxFilterCalls == 2

Hexagon == << <<4, 0>>, <<8, 0>>, <<12, 6>>, <<8, 12>>, <<4, 12>>, <<0, 6>> >>

FilterPool ==
    << Gcp("f1", 6, 12, Num(30)),                        \* on a vertex of Hexagon
       Gcp("f2", 6, 12, Num(150)),                       \* where f1 is
       [EmptyDict EXCEPT !.id = Str("f3"), !.lat = Num(3), !.lon = Num(1),   \* outside
                         !.rmse = Num(80),
                         !.type = Text(<<"T", "r", "e", "e">>),
                         !.photo_identifiable = Flag(FALSE)],
       [EmptyDict EXCEPT !.id = Str("f5"), !.error = Num(150),
                         !.description = Text(<<"S", "u", "r", "v", "e", "y", " ",
                                                "M", "a", "r", "k", "e", "r">>)],
       [EmptyDict EXCEPT !.id = Str("f4"), !.latitude = Num(6),
                         !.longitude = Num(6),                 \* inside
                         !.accuracy = NoneN, !.rmse = Num(500)],
       Gcp("f6", 12, 8, Num(100)),
       Gcp("f7", 1, 1, InfN) >>

FilterBoxes == { NoBbox, <<0, 0, 12, 12>> }

AccuracyThresholds == {100, 200}

FilterConfigs ==
    [min_accuracy : AccuracyThresholds,
     require_photo_identifiable : BOOLEAN,
     target_area : {NoArea, {Hexagon}},
     min_spread_score : {NoneN, Num(3000)},
     min_confidence_score : {NoneN, Num(7500), Num(30000)}]

FilterInit ==
    /\ fCfg \in FilterConfigs
    /\ fLast = UnsetMetrics
    /\ fCalls = 0
    /\ fIn = <<>> /\ fBbox = NoBbox /\ fOut = <<>>
    /\ DedupParked /\ ScoreParked /\ FindParked
    /\ CellsParked /\ ThreadsParked

\* the call returns r.out, having stored r.metrics when r.stored
FilterReturn(r) ==
    /\ fOut' = r.out
    /\ fLast' = IF r.stored THEN [set |-> TRUE, m |-> r.metrics] ELSE fLast

FilterCall ==
    /\ fCalls < MaxFilterCalls
    /\ \E gcps \in SubSeqsOf(FilterPool, MaxFilterPool), bbox \in FilterBoxes :
           /\ fIn' = gcps
           /\ fBbox' = bbox
           /\ FilterReturn(filter_gcps(fCfg, gcps, bbox))
           /\ fCalls' = fCalls + 1
           /\ UNCHANGED <<fCfg, dedupVars, scoreVars, findVars,
                   cellVars, threadVars>>

FilterNext == FilterCall

SpecFilter == FilterInit /\ [][FilterNext]_vars

(***************************************************************************)
(* The orchestrator: a GCPFinder is constructed and find_gcps is called on *)
(* it, up to MaxInvocations times, one invocation after the other.  An     *)
(* invocation advances from one source call to the next; a source call     *)
(* returns any list of at most max_results records of the source's pool    *)
(* (USGS lists as long as the invocation has found fewer than MaxFound     *)
(* records), or raises.  When the invocation has returned or raised its    *)
(* caller goes on, and may call again.                                     *)
(***************************************************************************)
MaxInvocations == 2
MaxFound == 2

UsgsPool ==
    << Gcp("U1", 6, 6, Num(30)),
       Gcp("U2", 3, 2, Num(30)),
       Gcp("U3", 11, 11, Num(150)) >>

NoaaPool ==
    << Gcp("N1", 6, 10, Num(30)),
       Gcp("U1", 11, 2, Num(30)) >>            \* carries the id of a USGS record,
                                               \* lies outside the cell c1

FinderConfigs ==
    [min_gcp_threshold : {2},
     min_accuracy : {100},
     require_photo_identifiable : {TRUE},
     min_spread_score : {NoneN},
     min_confidence_score : {NoneN, Num(30000)}]

FindArgs ==
    [bbox : {NoBbox, <<0, 0, 12, 12>>},
     h3_cells : {NoCells, Cells(<<>>), Cells(<<"c1">>), Cells(<<"zz">>),
                 Cells(<<"c1", "zz">>)},
     use_wrs2 : BOOLEAN,
     max_results : {1, 2},
     min_gcp_threshold : {NoneN, Num(0), Num(3)}]

SourceLists(pool, max_results, room) ==
    {l \in SubSeqsOf(pool, Len(pool)) : Len(l) <= max_results /\ Len(l) <= room}

UsgsCall(src, box, pr) == [src |-> src, box |-> box, pr |-> pr]

FindInit ==
    /\ finderCfg \in FinderConfigs
    /\ finderLast = UnsetMetrics
    /\ gInvocations = 0 /\ gPc = "idle"
    /\ gArgs = [bbox |-> NoBbox, h3_cells |-> NoCells, use_wrs2 |-> FALSE,
                max_results |-> 0, min_gcp_threshold |-> NoneN]
    /\ gThreshold = 0 /\ gBbox = NoBbox /\ gTarget = NoArea
    /\ gPathRows = <<>> /\ gNext = 1
    /\ gUsgs = <<>> /\ gUnique = <<>> /\ gAll = <<>>
    /\ gCalls = <<>> /\ gFiltered = <<>> /\ gRaised = ""
    /\ gEntryLast = UnsetMetrics
    /\ DedupParked /\ ScoreParked /\ FilterParked
    /\ CellsParked /\ ThreadsParked

\* mutant: the area is looked at only after the bounding-box query was sent
InputErrorAfterQuery ==
    /\ gPc' = "raised" /\ gRaised' = "input"
    /\ gBbox' = NoBbox /\ gTarget' = NoArea
    /\ gPathRows' = <<>> /\ gCalls' = <<UsgsCall("usgs_bbox", NoBbox, <<>>)>>

\* lines 100-103: the ValueError for want of an area leaves find_gcps at once
InputError ==
    /\ gPc' = "raised" /\ gRaised' = "input"
    /\ gBbox' = NoBbox /\ gTarget' = NoArea
    /\ gPathRows' = <<>> /\ gCalls' = <<>>

\* find_gcps is called: lines 96-120, up to the first source call
FindCall ==
    /\ gPc = "idle"
    /\ gInvocations < MaxInvocations
    /\ \E a \in FindArgs :
        LET r == ResolveArea(finderCfg, a)
            path_rows == IF a.use_wrs2 THEN bbox_to_wrs2_paths_rows(r.box) ELSE <<>>
        IN  /\ gInvocations' = gInvocations + 1
            /\ gArgs' = a
            /\ gThreshold' = r.threshold
            /\ gUsgs' = <<>> /\ gUnique' = <<>> /\ gAll' = <<>>
            /\ gFiltered' = <<>> /\ gNext' = 1
            /\ gEntryLast' = finderLast
            /\ IF r.raises
               THEN InputError
               ELSE /\ gRaised' = ""
                    /\ gBbox' = r.box /\ gTarget' = r.area
                    /\ gPathRows' = path_rows
                    /\ IF path_rows # <<>>
                       THEN /\ gPc' = "wrs2"
                            /\ gCalls' = <<UsgsCall("usgs_wrs2", NoBbox, path_rows[1])>>
                       ELSE /\ gPc' = "usgs_bbox"
                            /\ gCalls' = <<UsgsCall("usgs_bbox", r.box, <<>>)>>
    /\ UNCHANGED <<finderVars, dedupVars, scoreVars, filterVars,
                   cellVars, threadVars>>

\* lines 154-178 on the merged list: filter, store the metrics, return
Return(r) ==
    /\ gFiltered' = r.filtered_gcps
    /\ finderLast' = r.last_spatial_metrics
    /\ gPc' = "done"

\* mutant: the merged list goes through the filter a second time
FinishFilteringTwice(all_gcps) ==
    /\ gAll' = all_gcps
    /\ gCalls' = gCalls \o <<UsgsCall("filter", gBbox, <<>>), UsgsCall("filter", gBbox, <<>>)>>
    /\ Return(FilterMerged(finderCfg, gTarget, all_gcps, gBbox))

\* the call of filter_obj.filter_gcps (line 162) is entered in gCalls with
\* the source queries
Finish(all_gcps) ==
    /\ gAll' = all_gcps
    /\ gCalls' = Append(gCalls, UsgsCall("filter", gBbox, <<>>))
    /\ Return(FilterMerged(finderCfg, gTarget, all_gcps, gBbox))

\* usgs_client.find_gcps_by_wrs2 returns (lines 122-124): the list is
\* appended and the next grid reference, or the bounding box, is queried
Wrs2Return ==
    /\ gPc = "wrs2"
    /\ \E gcps \in SourceLists(UsgsPool, gArgs.max_results, MaxFound - Len(gUsgs)) :
        gUsgs' = gUsgs \o gcps
    /\ IF gNext < Len(gPathRows)
       THEN /\ gNext' = gNext + 1
            /\ gCalls' = Append(gCalls, UsgsCall("usgs_wrs2", NoBbox, gPathRows[gNext + 1]))
            /\ gPc' = "wrs2"
       ELSE /\ gNext' = gNext + 1
            /\ gCalls' = Append(gCalls, UsgsCall("usgs_bbox", gBbox, <<>>))
            /\ gPc' = "usgs_bbox"
    /\ UNCHANGED <<finderVars, gInvocations, gArgs, gThreshold, gBbox, gTarget,
                   gPathRows, gUnique, gAll, gFiltered, gRaised, gEntryLast,
                   dedupVars, scoreVars, filterVars,
                   cellVars, threadVars>>

\* a source call raises: nothing in find_gcps catches it
SourceRaises ==
    /\ gPc \in {"wrs2", "usgs_bbox", "noaa"}
    /\ gRaised' = (IF gPc = "wrs2" THEN "usgs_wrs2" ELSE gPc)
    /\ gPc' = "raised"
    /\ UNCHANGED <<finderVars, gInvocations, gArgs, localVars, gCalls, gFiltered,
                   gEntryLast, dedupVars, scoreVars, filterVars,
                   cellVars, threadVars>>

\* usgs_client.find_gcps_by_bbox returns (lines 127-152): the USGS records
\* are deduplicated and counted; below the threshold NOAA is queried,
\* otherwise the list goes to the filter
UsgsBboxReturn ==
    /\ gPc = "usgs_bbox"
    /\ \E bbox_gcps \in SourceLists(UsgsPool, gArgs.max_results, MaxFound - Len(gUsgs)) :
        LET usgs_gcps == gUsgs \o bbox_gcps
            unique_usgs_gcps == _deduplicate_gcps(usgs_gcps)
        IN  /\ gUsgs' = usgs_gcps
            /\ gUnique' = unique_usgs_gcps
            /\ IF BelowThreshold(unique_usgs_gcps, gThreshold)
               THEN /\ gPc' = "noaa"
                    /\ gCalls' = Append(gCalls, UsgsCall("noaa", gBbox, <<>>))
                    /\ gAll' = unique_usgs_gcps
                    /\ UNCHANGED <<finderLast, gFiltered>>
               ELSE Finish(unique_usgs_gcps)
    /\ UNCHANGED <<finderCfg, gInvocations, gArgs, gThreshold, gBbox, gTarget,
                   gPathRows, gNext, gRaised, gEntryLast, dedupVars, scoreVars, filterVars,
                   cellVars, threadVars>>

\* noaa_client.find_gcps_by_bbox returns (lines 142-178): its records are
\* appended, the whole is deduplicated and goes to the filter
NoaaReturn ==
    /\ gPc = "noaa"
    /\ \E noaa_gcps \in SourceLists(NoaaPool, gArgs.max_results, MaxFound) :
        Finish(_deduplicate_gcps(gAll \o noaa_gcps))
    /\ UNCHANGED <<finderCfg, gInvocations, gArgs, gThreshold, gBbox, gTarget,
                   gPathRows, gNext, gUsgs, gUnique, gRaised, gEntryLast,
                   dedupVars, scoreVars, filterVars,
                   cellVars, threadVars>>

\* find_gcps has returned or raised and its caller goes on: the locals of
\* the invocation are gone, the finder stays as the invocation left it
CallerResumes ==
    /\ gPc \in {"done", "raised"}
    /\ gPc' = "idle"
    /\ gArgs' = [bbox |-> NoBbox, h3_cells |-> NoCells, use_wrs2 |-> FALSE,
                 max_results |-> 0, min_gcp_threshold |-> NoneN]
    /\ gThreshold' = 0 /\ gBbox' = NoBbox /\ gTarget' = NoArea
    /\ gPathRows' = <<>> /\ gNext' = 1
    /\ gUsgs' = <<>> /\ gUnique' = <<>> /\ gAll' = <<>>
    /\ gCalls' = <<>> /\ gFiltered' = <<>> /\ gRaised' = ""
    /\ gEntryLast' = UnsetMetrics
    /\ UNCHANGED <<finderVars, gInvocations, dedupVars, scoreVars, filterVars,
                   cellVars, threadVars>>

Next ==
    \/ FindCall \/ Wrs2Return \/ UsgsBboxReturn \/ NoaaReturn \/ SourceRaises
    \/ CallerResumes

Spec == FindInit /\ [][Next]_vars

(***************************************************************************)
(* Harness of h3_utils: the input is any list of at most MaxCells          *)
(* identifiers of CellIds ("zz" is one h3 does not know); each of the two  *)
(* functions is applied to it once.  bbox_to_wrs2_paths_rows is applied to *)
(* a box of its own: one inside a grid cell whose row is the last, one     *)
(* across the meridian where two paths meet, one at the first path, one    *)
(* above 80 degrees north, and two wide ones far north, where the rows     *)
(* differ from corner to corner.                                           *)
(***************************************************************************)
MaxCells == 3

CellIds == {"c1", "c2", "c3", "zz"}

CellsInit ==
    /\ hCells \in SeqsUpTo(CellIds, MaxCells)
    /\ hDone = {}
    /\ hBox = [raises |-> FALSE, box |-> NoBbox]
    /\ hArea = [raises |-> FALSE, area |-> NoArea]
    /\ wBox \in { <<0, 0, 12, 12>>,
                  <<70 * UnitsPerDegree, -6, 70 * UnitsPerDegree + 12, 6>>,
                  <<70 * UnitsPerDegree, -180 * UnitsPerDegree,
                    71 * UnitsPerDegree, -179 * UnitsPerDegree>>,
                  <<79 * UnitsPerDegree, 0, 81 * UnitsPerDegree, 12>>,
                  <<70 * UnitsPerDegree, -80 * UnitsPerDegree,
                    79 * UnitsPerDegree, 80 * UnitsPerDegree>>,
                  <<-79 * UnitsPerDegree, -80 * UnitsPerDegree,
                    -70 * UnitsPerDegree, 80 * UnitsPerDegree>> }
    /\ wRows = <<>>
    /\ nCache = [st |-> "none", v |-> <<>>] /\ nBox = NoBbox /\ nMax = 0
    /\ nOut = [st |-> "off", v |-> <<>>]
    /\ DedupParked /\ ScoreParked /\ FilterParked /\ FindParked /\ ThreadsParked

CellsToBbox ==
    /\ "bbox" \notin hDone
    /\ hBox' = h3_cells_to_bbox(hCells)
    /\ hDone' = hDone \cup {"bbox"}
    /\ UNCHANGED <<hCells, hArea, wBox, wRows, nCache, nBox, nMax, nOut,
                   dedupVars, scoreVars, filterVars, findVars, threadVars>>

CellsToPolygon ==
    /\ "polygon" \notin hDone
    /\ hArea' = h3_cells_to_polygon(hCells)
    /\ hDone' = hDone \cup {"polygon"}
    /\ UNCHANGED <<hCells, hBox, wBox, wRows, nCache, nBox, nMax, nOut,
                   dedupVars, scoreVars, filterVars, findVars, threadVars>>

BoxToPathRows ==
    /\ "rows" \notin hDone
    /\ wRows' = bbox_to_wrs2_paths_rows(wBox)
    /\ hDone' = hDone \cup {"rows"}
    /\ UNCHANGED <<hCells, hBox, hArea, wBox, nCache, nBox, nMax, nOut,
                   dedupVars, scoreVars, filterVars, findVars, threadVars>>

CellsNext == CellsToBbox \/ CellsToPolygon \/ BoxToPathRows

SpecCells == CellsInit /\ [][CellsNext]_vars

(***************************************************************************)
(* Harness of the NOAA client: the cache is None or any list of one to     *)
(* MaxCache records of which one lies inside every box, one on the corner  *)
(* of the larger box, one outside both and one has no lat; the box is the  *)
(* larger box or a box of one point; find_gcps_by_bbox is called once.     *)
(***************************************************************************)
MaxCache == 3

NoaaClientInit ==
    /\ nCache \in {[st |-> "none", v |-> <<>>]}
                 \cup {[st |-> "val", v |-> l] :
                         l \in SeqsUpTo({ Gcp("N1", 1, 1, Num(1)),
                                          Gcp("N2", 12, 12, Num(1)),
                                          Gcp("N3", 13, 5, Num(1)),
                                          [Gcp("N4", 0, 5, Num(1)) EXCEPT !.lat = AbsentN] },
                                        MaxCache) \ {<<>>}}
    /\ nBox \in {<<0, 0, 12, 12>>, <<1, 1, 1, 1>>}
    /\ nMax \in 0..3
    /\ nOut = [st |-> "off", v |-> <<>>]
    /\ hCells = <<>> /\ hDone = {}
    /\ hBox = [raises |-> FALSE, box |-> NoBbox]
    /\ hArea = [raises |-> FALSE, area |-> NoArea]
    /\ wBox = NoBbox /\ wRows = <<>>
    /\ DedupParked /\ ScoreParked /\ FilterParked /\ FindParked /\ ThreadsParked

NoaaFindByBbox ==
    /\ nOut.st = "off"
    /\ nOut' = find_gcps_by_bbox(nCache, nBox, nMax)
    /\ UNCHANGED <<nCache, nBox, nMax, hCells, hDone, hBox, hArea, wBox, wRows,
                   dedupVars, scoreVars, filterVars, findVars, threadVars>>

SpecNoaa == NoaaClientInit /\ [][NoaaFindByBbox]_vars

(***************************************************************************)
(* Two callers, each on a thread of its own, call find_gcps once on the    *)
(* same GCPFinder and then read its last_spatial_metrics.  Lines 96-162 of *)
(* an invocation work on locals and on a filter object of its own: they    *)
(* are one step, which takes the merged list the sources gave (any         *)
(* subsequence of the first MaxThreadPool records of ThreadPool) through   *)
(* the filter.  The assignment to self.last_spatial_metrics (line 165),    *)
(* the return (line 178) and the caller's read are steps of their own, and *)
(* the steps of the two threads interleave freely.                         *)
(***************************************************************************)
MaxThreadPool == 3

Callers == {"a", "b"}

ThreadPool == <<UsgsPool[1], UsgsPool[2], NoaaPool[1], UsgsPool[3], NoaaPool[2]>>

ThreadBox == <<0, 0, 12, 12>>

ThreadsInit ==
    /\ finderCfg \in FinderConfigs
    /\ finderLast = UnsetMetrics
    /\ tPc = [t \in Callers |-> "idle"]
    /\ tAll = [t \in Callers |-> <<>>]
    /\ tLocal = [t \in Callers |->
                    [filtered_gcps |-> <<>>, last_spatial_metrics |-> UnsetMetrics]]
    /\ tReturned = [t \in Callers |-> <<>>]
    /\ tSeen = [t \in Callers |-> UnsetMetrics]
    /\ InvocationParked /\ DedupParked /\ ScoreParked /\ FilterParked /\ CellsParked

\* lines 96-162: the invocation gathers its list and filters it
ThreadCall(t) ==
    /\ tPc[t] = "idle"
    /\ \E all_gcps \in SubSeqsOf(ThreadPool, MaxThreadPool) :
        /\ tAll' = [tAll EXCEPT ![t] = all_gcps]
        /\ tLocal' = [tLocal EXCEPT ![t] = FilterMerged(finderCfg, NoArea, all_gcps, ThreadBox)]
    /\ tPc' = [tPc EXCEPT ![t] = "filtered"]
    /\ UNCHANGED <<finderVars, tReturned, tSeen, invocationVars,
                   dedupVars, scoreVars, filterVars, cellVars>>

\* line 165: self.last_spatial_metrics = getattr(filter_obj, ...)
ThreadStore(t) ==
    /\ tPc[t] = "filtered"
    /\ finderLast' = tLocal[t].last_spatial_metrics
    /\ tPc' = [tPc EXCEPT ![t] = "stored"]
    /\ UNCHANGED <<finderCfg, tAll, tLocal, tReturned, tSeen, invocationVars,
                   dedupVars, scoreVars, filterVars, cellVars>>

\* line 178: return filtered_gcps
ThreadReturn(t) ==
    /\ tPc[t] = "stored"
    /\ tReturned' = [tReturned EXCEPT ![t] = tLocal[t].filtered_gcps]
    /\ tPc' = [tPc EXCEPT ![t] = "returned"]
    /\ UNCHANGED <<finderVars, tAll, tLocal, tSeen, invocationVars,
                   dedupVars, scoreVars, filterVars, cellVars>>

\* the caller reads finder.last_spatial_metrics after its call returned
CallerReads(t) ==
    /\ tPc[t] = "returned"
    /\ tSeen' = [tSeen EXCEPT ![t] = finderLast]
    /\ tPc' = [tPc EXCEPT ![t] = "read"]
    /\ UNCHANGED <<finderVars, tAll, tLocal, tReturned, invocationVars,
                   dedupVars, scoreVars, filterVars, cellVars>>

ThreadsNext ==
    \E t \in Callers :
        ThreadCall(t) \/ ThreadStore(t) \/ ThreadReturn(t) \/ CallerReads(t)

SpecThreads == ThreadsInit /\ [][ThreadsNext]_vars

(***************************************************************************)
(* Claims about GCPFinder.find_gcps (checked under Spec)                   *)
(***************************************************************************)
\* the threshold of the invocation: the argument when one is given, the
\* constructor's otherwise
ThresholdInForce ==
    IF gArgs.min_gcp_threshold # NoneN THEN gArgs.min_gcp_threshold.v
    ELSE finderCfg.min_gcp_threshold

QueriesOf(src) == SelectSeq(gCalls, LAMBDA c : c.src = src)

\* the invocation has deduplicated the USGS records and compared their
\* number with the threshold
ThresholdEvaluated == gPc \in {"noaa", "done"} \/ gRaised = "noaa"

\* C1: NOAA is queried, once and with the box the USGS bbox query had, when
\* the deduplicated USGS records are fewer than the threshold in force, and
\* is not queried at all otherwise
C1_NoaaIffBelowThreshold ==
    /\ ~ThresholdEvaluated => QueriesOf("noaa") = <<>>
    /\ ThresholdEvaluated =>
        IF Len(gUnique) < ThresholdInForce
        THEN /\ Len(QueriesOf("noaa")) = 1
             /\ Len(QueriesOf("usgs_bbox")) = 1
             /\ QueriesOf("noaa")[1].box = QueriesOf("usgs_bbox")[1].box
             /\ QueriesOf("noaa")[1].box = gBbox
        ELSE QueriesOf("noaa") = <<>>

C1_Witness ==
    /\ gPc = "done"
    /\ Len(gUnique) < Len(gUsgs)
    /\ Len(gUsgs) >= ThresholdInForce
    /\ Len(gUnique) < ThresholdInForce
    /\ Len(QueriesOf("noaa")) = 1

\* C9: an error raised by a source query never ends the invocation
C9_SourceErrorsDegrade ==
    gRaised \notin {"usgs_wrs2", "usgs_bbox", "noaa"}

(***************************************************************************)
(* Claims about _deduplicate_gcps (checked under SpecDedup)                *)
(***************************************************************************)
\* the effective coordinates of a record, as the deduplicator reads them
CoordsOf(gcp) ==
    <<Get(gcp, "lat", Get(gcp, "latitude", NoneN)),
      Get(gcp, "lon", Get(gcp, "longitude", NoneN))>>

HasCoords(gcp) == CoordsOf(gcp)[1].st = "val" /\ CoordsOf(gcp)[2].st = "val"

RoundedCoords(gcp) == <<Round6(CoordsOf(gcp)[1].v), Round6(CoordsOf(gcp)[2].v)>>

\* the record carries a non-empty value under 'id'
HasId(gcp) == gcp.id.st = "val" /\ gcp.id.v # ""

\* the record carries a non-empty identifier: under 'id', or under 'label'
\* when it has no 'id' key at all
HasIdOrLabel(gcp) ==
    \/ HasId(gcp)
    \/ gcp.id.st = "absent" /\ gcp.label.st = "val" /\ gcp.label.v # ""

IdOrLabel(gcp) == IF HasId(gcp) THEN gcp.id.v ELSE gcp.label.v

\* the deduplication key as claim C2 words it: the id, otherwise the location
IdThenLocationKey(gcp) ==
    IF HasId(gcp) THEN <<"id", gcp.id.v>>
    ELSE IF HasCoords(gcp) THEN <<"loc", RoundedCoords(gcp)>>
    ELSE <<"none">>

\* the deduplication key with the label standing in for a missing id
IdLabelThenLocationKey(gcp) ==
    IF HasIdOrLabel(gcp) THEN <<"id", IdOrLabel(gcp)>>
    ELSE IF HasCoords(gcp) THEN <<"loc", RoundedCoords(gcp)>>
    ELSE <<"none">>

\* the subsequence of s that keeps, for every key, the first record carrying
\* it, and every record that carries no key; keys[i] is the key of s[i]
KeepFirst(s, keys) ==
    PickFrom(s, {i \in 1..Len(s) :
                    \/ keys[i] = <<"none">>
                    \/ \A j \in 1..(i - 1) : keys[j] # keys[i]}, 1)

\* C2 as stated: the result keeps exactly the first record of every key,
\* the key being the id when present and the rounded location otherwise
C2_FirstOfIdOrLocation ==
    dpc # "input" => dOut = KeepFirst(dIn, [i \in 1..Len(dIn) |-> IdThenLocationKey(dIn[i])])

\* C2 amended: the result keeps, in input order, exactly the first record of
\* every key and every keyless record, the key being the non-empty id, else
\* (no 'id' key) the non-empty label, else the rounded location
C2_FirstOfIdLabelOrLocation ==
    dpc # "input" => dOut = KeepFirst(dIn, [i \in 1..Len(dIn) |-> IdLabelThenLocationKey(dIn[i])])

C2_Witness ==
    /\ dpc = "once"
    /\ Len(dIn) = 3
    /\ ~HasIdOrLabel(dIn[1]) /\ ~HasIdOrLabel(dIn[2])
    /\ HasCoords(dIn[1]) /\ HasCoords(dIn[2])
    /\ CoordsOf(dIn[1]) # CoordsOf(dIn[2])
    /\ HasId(dIn[3])
    /\ dOut = <<dIn[1], dIn[3]>>

\* C3 as stated: of two records with the same id and different coordinates
\* one survives, and of two records without id whose coordinates round to
\* the same pair one survives, whatever their labels
C3_KeyPrecedence ==
    (dpc # "input" /\ Len(dIn) = 2) =>
        /\ (/\ HasId(dIn[1]) /\ HasId(dIn[2]) /\ dIn[1].id = dIn[2].id
            /\ CoordsOf(dIn[1]) # CoordsOf(dIn[2])) => Len(dOut) = 1
        /\ (/\ ~HasId(dIn[1]) /\ ~HasId(dIn[2])
            /\ HasCoords(dIn[1]) /\ HasCoords(dIn[2])
            /\ RoundedCoords(dIn[1]) = RoundedCoords(dIn[2])) => Len(dOut) = 1

\* C3 amended: the second half holds of two records that carry neither an id
\* nor a label standing in for it
C3_KeyPrecedenceNoLabel ==
    (dpc # "input" /\ Len(dIn) = 2) =>
        /\ (/\ HasId(dIn[1]) /\ HasId(dIn[2]) /\ dIn[1].id = dIn[2].id
            /\ CoordsOf(dIn[1]) # CoordsOf(dIn[2])) =>
                (Len(dOut) = 1 /\ dOut[1] = dIn[1])
        /\ (/\ ~HasIdOrLabel(dIn[1]) /\ ~HasIdOrLabel(dIn[2])
            /\ HasCoords(dIn[1]) /\ HasCoords(dIn[2])
            /\ RoundedCoords(dIn[1]) = RoundedCoords(dIn[2])) =>
                (Len(dOut) = 1 /\ dOut[1] = dIn[1])

C3_Witness ==
    /\ dpc = "once"
    /\ Len(dIn) = 2
    /\ ~HasIdOrLabel(dIn[1]) /\ ~HasIdOrLabel(dIn[2])
    /\ HasCoords(dIn[1]) /\ HasCoords(dIn[2])
    /\ CoordsOf(dIn[1]) # CoordsOf(dIn[2])
    /\ RoundedCoords(dIn[1]) = RoundedCoords(dIn[2])
    /\ dOut = <<dIn[1]>>

\* C4: deduplicating the result of a deduplication returns it unchanged
C4_Idempotent == dpc = "twice" => dOut2 = dOut

C4_Witness ==
    /\ dpc = "twice"
    /\ Len(dOut) < Len(dIn)
    /\ \E i \in 1..Len(dOut) : dOut[i] = EmptyDict
    /\ dOut2 = dOut

(***************************************************************************)
(* Claims about calculate_spatial_distribution_score (under SpecScore)     *)
(***************************************************************************)
\* C7: every returned score lies in its range: the hull ratio is not
\* negative, and grid coverage, spread score and confidence score lie
\* between 0 and 1
C7_ScorerRange ==
    spc = "scored" =>
        /\ 0 <= sMetrics.convex_hull_ratio
        /\ 0 <= sMetrics.grid_coverage /\ sMetrics.grid_coverage <= ScoreOne
        /\ 0 <= sMetrics.spread_score /\ sMetrics.spread_score <= ScoreOne
        /\ 0 <= sMetrics.confidence_score /\ sMetrics.confidence_score <= ScoreOne

\* C8: with fewer than 2 records, or fewer than 2 records that have both
\* coordinates, the five metrics are 0 and the warning is set
C8_ScorerBoundary ==
    (/\ spc = "scored"
     /\ Cardinality({i \in 1..Len(sGcps) : HasCoords(sGcps[i])}) < 2) =>
        /\ sMetrics.convex_hull_ratio = 0
        /\ sMetrics.avg_nearest_neighbor = 0
        /\ sMetrics.grid_coverage = 0
        /\ sMetrics.spread_score = 0
        /\ sMetrics.confidence_score = 0
        /\ "warning" \in DOMAIN sMetrics
        /\ sMetrics.warning # ""

C8_Witness ==
    /\ spc = "scored"
    /\ Len(sGcps) = 2
    /\ HasCoords(sGcps[1]) /\ ~HasCoords(sGcps[2])
    /\ "warning" \in DOMAIN sMetrics
    /\ sMetrics.warning = "Insufficient valid coordinates"

\* the record has both coordinates and lies in the centred sub-rectangle of
\* the box that extends 10% of its height and width either side of the centre
InCentralTenth(box, gcp) ==
    /\ HasCoords(gcp)
    /\ LET lat == CoordsOf(gcp)[1].v
           lon == CoordsOf(gcp)[2].v
           dlat == 2 * lat - (box[1] + box[3])
           dlon == 2 * lon - (box[2] + box[4])
       IN  /\ 5 * dlat <= box[3] - box[1] /\ 5 * (0 - dlat) <= box[3] - box[1]
           /\ 5 * dlon <= box[4] - box[2] /\ 5 * (0 - dlon) <= box[4] - box[2]

Clustered ==
    /\ spc = "scored"
    /\ sBbox # NoBbox
    /\ Len(sGcps) >= 2
    /\ \A i \in 1..Len(sGcps) : InCentralTenth(sBbox, sGcps[i])

\* C15: 2 or more points that all lie in the central tenth of the nominal
\* box score a confidence below 0.5 against that box
C15_ClusteredLowConfidence ==
    Clustered => 2 * sMetrics.confidence_score < ScoreOne

\* ten or more clustered points, scoring more than 0.45
C15_Witness ==
    /\ Clustered
    /\ Len(sGcps) >= 10
    /\ 100 * sMetrics.confidence_score > 45 * ScoreOne

\* the records of the list that contribute a point
WithCoordinates(gcps) == SelectSeq(gcps, LAMBDA g : PointOf(g) # <<>>)

\* the metrics of two results agree (a result of the early returns carries
\* the five scores only)
SameMetrics(m1, m2) ==
    /\ m1.convex_hull_ratio = m2.convex_hull_ratio
    /\ m1.avg_nearest_neighbor = m2.avg_nearest_neighbor
    /\ m1.grid_coverage = m2.grid_coverage
    /\ m1.spread_score = m2.spread_score
    /\ m1.confidence_score = m2.confidence_score
    /\ ("num_points" \in DOMAIN m1 /\ "num_points" \in DOMAIN m2) =>
           /\ m1.num_points = m2.num_points
           /\ m1.normalized_avg_nn = m2.normalized_avg_nn

\* C17: every metric of a list equals the metric of the list without its
\* coordinate-less records
C17_CoordlessExcluded ==
    spc = "scored" =>
        SameMetrics(sMetrics,
                    calculate_spatial_distribution_score(WithCoordinates(sGcps), sBbox))

(***************************************************************************)
(* Claims about GCPFilter.filter_gcps (under SpecFilter)                   *)
(***************************************************************************)
\* the records of gcps that pass the three per-point tests, in input order
Survivors(cfg, gcps) == SelectSeq(gcps, LAMBDA g : PassesPerPoint(cfg, g))

\* C5: the call returns nothing when 2 or more records survive and a
\* configured minimum exceeds its score, and the survivors otherwise
C5_SetLevelRejection ==
    fCalls > 0 =>
        LET surv == Survivors(fCfg, fIn)
            m == calculate_spatial_distribution_score(surv, fBbox)
            below ==
                \/ /\ fCfg.min_spread_score # NoneN
                   /\ m.spread_score < fCfg.min_spread_score.v
                \/ /\ fCfg.min_confidence_score # NoneN
                   /\ m.confidence_score < fCfg.min_confidence_score.v
        IN  fOut = IF Len(surv) >= 2 /\ below THEN <<>> ELSE surv

C5_Witness ==
    /\ fCalls > 0
    /\ Len(Survivors(fCfg, fIn)) >= 2
    /\ fCfg.min_spread_score # NoneN
    /\ fCfg.min_confidence_score = NoneN
    /\ fLast.set
    /\ fLast.m.spread_score = fCfg.min_spread_score.v
    /\ fOut = Survivors(fCfg, fIn)

WithMinAccuracy(cfg, a) == [cfg EXCEPT !.min_accuracy = a]

\* C6 as stated: a lower min_accuracy never gives a longer output, whatever
\* the rest of the configuration
C6_Monotone ==
    fCalls > 0 =>
        \A a1 \in AccuracyThresholds :
            a1 <= fCfg.min_accuracy =>
                Len(filter_gcps(WithMinAccuracy(fCfg, a1), fIn, fBbox).out) <= Len(fOut)

\* C6 amended: a lower min_accuracy never gives a longer output when neither
\* min_spread_score nor min_confidence_score is configured
C6_MonotoneWithoutSetLevel ==
    (/\ fCalls > 0
     /\ fCfg.min_spread_score = NoneN
     /\ fCfg.min_confidence_score = NoneN) =>
        \A a1 \in AccuracyThresholds :
            a1 <= fCfg.min_accuracy =>
                Len(filter_gcps(WithMinAccuracy(fCfg, a1), fIn, fBbox).out) <= Len(fOut)

C6_Witness ==
    /\ fCalls > 0
    /\ fCfg.min_spread_score = NoneN
    /\ fCfg.min_confidence_score = NoneN
    /\ \E a1 \in AccuracyThresholds :
        /\ a1 < fCfg.min_accuracy
        /\ Len(filter_gcps(WithMinAccuracy(fCfg, a1), fIn, fBbox).out) < Len(fOut)

\* the first of accuracy, rmse, error the record carries
EffectiveAccuracy(gcp) ==
    IF gcp.accuracy.st # "absent" THEN gcp.accuracy
    ELSE IF gcp.rmse.st # "absent" THEN gcp.rmse
    ELSE gcp.error

\* C10: every returned record either has no accuracy value or has an
\* effective accuracy of at most min_accuracy
C10_AccuracySound ==
    fCalls > 0 =>
        \A i \in 1..Len(fOut) :
            LET a == EffectiveAccuracy(fOut[i])
            IN  \/ a.st \in {"absent", "none", "inf"}
                \/ a.st = "val" /\ a.v <= fCfg.min_accuracy

C10_Witness ==
    /\ fCalls > 0
    /\ \E i \in 1..Len(fOut) :
        /\ fOut[i].accuracy.st = "absent"
        /\ fOut[i].rmse.st = "val"
    /\ \E i \in 1..Len(fIn) :
        /\ EffectiveAccuracy(fIn[i]).st = "val"
        /\ EffectiveAccuracy(fIn[i]).v > fCfg.min_accuracy
        /\ \A j \in 1..Len(fOut) : fOut[j] # fIn[i]
\* C16: with a target area configured, every returned record has both
\* coordinates and lies inside or on the boundary of the area
C16_AreaMembership ==
    (fCalls >= 1 /\ fCfg.target_area # NoArea) =>
        \A i \in 1..Len(fOut) :
            /\ HasCoords(fOut[i])
            /\ \E poly \in fCfg.target_area :
                   InClosedPolygon(poly, <<CoordsOf(fOut[i])[2].v, CoordsOf(fOut[i])[1].v>>)

\* a record without coordinates and a record outside the area pass the
\* other tests and are left out, a record on the boundary is returned
C16_Witness ==
    /\ fCalls >= 1 /\ fCfg.target_area # NoArea
    /\ \E i \in 1..Len(fIn) :
        /\ ~HasCoords(fIn[i])
        /\ _meets_accuracy_requirement(fCfg, fIn[i])
    /\ \E i \in 1..Len(fIn) :
        /\ HasCoords(fIn[i])
        /\ _meets_accuracy_requirement(fCfg, fIn[i])
        /\ \A j \in 1..Len(fOut) : fOut[j] # fIn[i]
    /\ \E j \in 1..Len(fOut) :
        \E poly \in fCfg.target_area : \E k \in 1..Len(poly) :
            Cross(poly[k], poly[(k % Len(poly)) + 1],
                  <<CoordsOf(fOut[j])[2].v, CoordsOf(fOut[j])[1].v>>) = 0

\* C18: the metrics a filter object exposes are those of its most recent
\* call: computed from that call's survivors and bbox
C18_MetricsFresh ==
    (fCalls >= 1 /\ fLast.set) =>
        /\ Len(Survivors(fCfg, fIn)) >= 2
        /\ fLast.m = calculate_spatial_distribution_score(Survivors(fCfg, fIn), fBbox)

\* C20: a call that leaves fewer than 2 survivors returns them unchanged
\* and stores no metrics, whatever minimums are configured
C20_SetLevelOnlyFromTwo ==
    [][(fCalls' = fCalls + 1 /\ Len(Survivors(fCfg, fIn')) < 2) =>
            (fOut' = Survivors(fCfg, fIn') /\ fLast' = fLast)]_vars

\* one record survived, both minimums are configured, and it was returned
C20_Witness ==
    /\ fCalls >= 1
    /\ Len(Survivors(fCfg, fIn)) = 1
    /\ Len(fOut) = 1
    /\ fCfg.min_spread_score # NoneN
    /\ fCfg.min_confidence_score # NoneN

(***************************************************************************)
(* Claims about h3_utils (under SpecCells)                                 *)
(***************************************************************************)
\* every vertex of the boundary of every cell of the list, as <<lon, lat>>
BoundaryVertices(h3_cells) ==
    {CellBoundary[h3_cells[i]][k] :
        i \in 1..Len(h3_cells), k \in 1..6}

\* C14: for a non-empty list of valid cells h3_cells_to_bbox returns
\* (min_lat, min_lon, max_lat, max_lon) with min_lat < max_lat and
\* min_lon < max_lon, each component being the minimum, respectively the
\* maximum, latitude or longitude over every boundary vertex of every cell
C14_BboxIsTightEnvelope ==
    ("bbox" \in hDone /\ hCells # <<>> /\ (\A i \in 1..Len(hCells) : is_valid_cell(hCells[i]))) =>
        /\ ~hBox.raises
        /\ hBox.box[1] < hBox.box[3] /\ hBox.box[2] < hBox.box[4]
        /\ \E v \in BoundaryVertices(hCells) : v[2] = hBox.box[1]
        /\ \E v \in BoundaryVertices(hCells) : v[1] = hBox.box[2]
        /\ \E v \in BoundaryVertices(hCells) : v[2] = hBox.box[3]
        /\ \E v \in BoundaryVertices(hCells) : v[1] = hBox.box[4]
        /\ \A v \in BoundaryVertices(hCells) :
              /\ hBox.box[1] <= v[2] /\ v[2] <= hBox.box[3]
              /\ hBox.box[2] <= v[1] /\ v[1] <= hBox.box[4]

\* the box of two cells was computed and is the box of neither cell alone
C14_Witness ==
    /\ "bbox" \in hDone /\ Len(hCells) >= 2 /\ (\A i \in 1..Len(hCells) : is_valid_cell(hCells[i]))
    /\ ~hBox.raises
    /\ \A i \in 1..Len(hCells) : hBox.box # h3_cells_to_bbox(<<hCells[i]>>).box

(***************************************************************************)
(* Further claims about GCPFinder.find_gcps (under Spec)                   *)
(***************************************************************************)
\* C12: find_gcps returns at most max_results records
C12_AtMostMaxResults ==
    gPc = "done" => Len(gFiltered) <= gArgs.max_results

\* the arguments give no area: no bounding box, and no cell set or one that
\* is empty or holds an invalid cell
NoAreaGiven(a) ==
    /\ a.bbox = NoBbox
    /\ \/ a.h3_cells.st = "none"
       \/ a.h3_cells.v = <<>>
       \/ \E i \in 1..Len(a.h3_cells.v) : ~is_valid_cell(a.h3_cells.v[i])

InvocationBegun == gPc \in {"wrs2", "usgs_bbox", "noaa", "done", "raised"}

\* C13: an invocation whose arguments give no area ends with the input
\* error, has queried no source, and last_spatial_metrics is what it was
\* when the invocation began
C13_InputErrorImmediate ==
    (InvocationBegun /\ NoAreaGiven(gArgs)) =>
        /\ gPc = "raised" /\ gRaised = "input"
        /\ gCalls = <<>>
        /\ finderLast = gEntryLast

\* the input error of a second invocation, metrics of the first retained
C13_Witness ==
    /\ gPc = "raised" /\ gRaised = "input" /\ NoAreaGiven(gArgs)
    /\ gInvocations >= 2 /\ finderLast.set

\* the filter object of the invocation (lines 155-161)
InvocationFilter ==
    [min_accuracy |-> finderCfg.min_accuracy,
     require_photo_identifiable |-> finderCfg.require_photo_identifiable,
     target_area |-> gTarget,
     min_spread_score |-> finderCfg.min_spread_score,
     min_confidence_score |-> finderCfg.min_confidence_score]

MetricsOfSurvivors(survivors, box) ==
    IF Len(survivors) >= 2
    THEN [set |-> TRUE, m |-> calculate_spatial_distribution_score(survivors, box)]
    ELSE UnsetMetrics

\* C19: when an invocation has returned, last_spatial_metrics is the metrics
\* of its per-point survivors if at least two survived (whatever the filter
\* then returned) and None if fewer did; an invocation that has not returned
\* has left it as it was
C19_MetricsOfLastCompletedCall ==
    /\ gPc = "done" =>
          finderLast = MetricsOfSurvivors(Survivors(InvocationFilter, gAll), gBbox)
    /\ gPc \in {"wrs2", "usgs_bbox", "noaa", "raised"} => finderLast = gEntryLast

\* a later invocation with fewer than two survivors has cleared the metrics
\* an earlier one had left
C19_Witness ==
    /\ gPc = "done" /\ gInvocations >= 2
    /\ gEntryLast.set /\ ~finderLast.set

\* an invocation whose set was rejected has left the metrics of that set
C19_WitnessRejected ==
    /\ gPc = "done" /\ gFiltered = <<>> /\ finderLast.set
    /\ Len(Survivors(InvocationFilter, gAll)) >= 2

(***************************************************************************)
(* Claims about concurrent invocations (under SpecThreads)                 *)
(***************************************************************************)
\* what the invocation of caller t computes from its own list
OwnResult(t) == FilterMerged(finderCfg, NoArea, tAll[t], ThreadBox)

\* C11: under every interleaving of two invocations on one GCPFinder, the
\* list a caller was returned and the last_spatial_metrics it read after its
\* call returned are those computed from its own invocation's data
C11_NoSharedMutableState ==
    \A t \in Callers :
        tPc[t] = "read" =>
            /\ tReturned[t] = OwnResult(t).filtered_gcps
            /\ tSeen[t] = OwnResult(t).last_spatial_metrics

\* C24: h3_cells_to_bbox and h3_cells_to_polygon each fail when a cell of
\* their input is not a valid cell index; neither returns a result computed
\* from the valid cells that remain
C24_MalformedCellFatal ==
    (\E i \in 1..Len(hCells) : ~is_valid_cell(hCells[i])) =>
        /\ "bbox" \in hDone => hBox.raises
        /\ "polygon" \in hDone => hArea.raises

\* C25: with require_photo_identifiable set, filter_gcps returns the list it
\* returns with the flag cleared: the test rejects no record, whatever its
\* photo_identifiable flag, type and description say
C25_PhotoTestRejectsNothing ==
    fCalls >= 1 =>
        fOut = filter_gcps([fCfg EXCEPT !.require_photo_identifiable =
                                            ~fCfg.require_photo_identifiable],
                           fIn, fBbox).out

\* a record flagged not photo-identifiable, of a type and description that
\* match no term, was returned by a filter requiring photo-identifiability
C25_Witness ==
    /\ fCalls >= 1 /\ fCfg.require_photo_identifiable
    /\ \E i \in 1..Len(fOut) :
        /\ fOut[i].photo_identifiable = Flag(FALSE)
        /\ \A k \in 1..Len(identifiable_types) :
            /\ ~Contains(Lower(fOut[i].type.v), identifiable_types[k])
            /\ ~Contains(Lower(fOut[i].description.v), identifiable_types[k])

C23_AllEightNeighbours ==
    LET refs == {lat_lon_to_wrs2_path_row(c[1], c[2]) :
                    c \in { <<2 * wBox[1], 2 * wBox[2]>>, <<2 * wBox[1], 2 * wBox[4]>>,
                            <<2 * wBox[3], 2 * wBox[2]>>, <<2 * wBox[3], 2 * wBox[4]>>,
                            <<wBox[1] + wBox[3], wBox[2] + wBox[4]>> }}
    IN  "rows" \in hDone =>
            \A pr \in refs : \A dp \in {-1, 0, 1}, dr \in {-1, 0, 1} :
                \E i \in 1..Len(wRows) : wRows[i] = <<pr[1] + dp, pr[2] + dr>>

\* C23, amended: the result holds every neighbour of every computed
\* reference that is a reference of the grid (path 1..233, row 1..248), holds
\* the computed references themselves, and holds nothing else
C23_NeighboursWithinGrid ==
    LET refs == {lat_lon_to_wrs2_path_row(c[1], c[2]) :
                    c \in { <<2 * wBox[1], 2 * wBox[2]>>, <<2 * wBox[1], 2 * wBox[4]>>,
                            <<2 * wBox[3], 2 * wBox[2]>>, <<2 * wBox[3], 2 * wBox[4]>>,
                            <<wBox[1] + wBox[3], wBox[2] + wBox[4]>> }}
        found == {wRows[i] : i \in 1..Len(wRows)}
    IN  "rows" \in hDone =>
            /\ \A pr \in refs : \A dp \in {-1, 0, 1}, dr \in {-1, 0, 1} :
                  (pr[1] + dp \in 1..233 /\ pr[2] + dr \in 1..248) =>
                      <<pr[1] + dp, pr[2] + dr>> \in found
            /\ refs \subseteq found
            /\ \A n \in found : \E pr \in refs :
                  n[1] - pr[1] \in {-1, 0, 1} /\ n[2] - pr[2] \in {-1, 0, 1}

\* a box at the first path, north of the last row: the neighbours of path 0
\* are left out, and those of paths 1 and 2 are all there
C23_Witness ==
    /\ "rows" \in hDone
    /\ \E i \in 1..Len(wRows) : wRows[i][1] = 1 /\ wRows[i][2] \in 2..247
    /\ \E i \in 1..Len(wRows) : wRows[i][1] = 2
    /\ Len(wRows) >= 6

(***************************************************************************)
(* Claims about the course of an invocation of find_gcps (under Spec)      *)
(***************************************************************************)
\* C21: in gCalls the grid-reference queries, one for each reference and in
\* their order, come before the one bbox query; NOAA is queried at most
\* once and after the bbox query; the filter is called at most once, after
\* every source query, and nothing follows it; the filter has been called
\* exactly when the invocation has returned
C21_SinglePass ==
    LET n == Len(gCalls)
        first_other == IF \E i \in 1..n : gCalls[i].src # "usgs_wrs2"
                       THEN CHOOSE i \in 1..n :
                               /\ gCalls[i].src # "usgs_wrs2"
                               /\ \A j \in 1..(i - 1) : gCalls[j].src = "usgs_wrs2"
                       ELSE n + 1
    IN  /\ \A i \in 1..n : i < first_other <=> gCalls[i].src = "usgs_wrs2"
        /\ \A i \in 1..(first_other - 1) : gCalls[i].pr = gPathRows[i]
        /\ first_other <= n =>
              /\ gCalls[first_other].src = "usgs_bbox"
              /\ first_other - 1 = Len(gPathRows)
        /\ \A i \in (first_other + 1)..n :
              /\ gCalls[i].src \in {"noaa", "filter"}
              /\ gCalls[i].src = "noaa" => i = first_other + 1
              /\ gCalls[i].src = "filter" => i = n
        /\ Len(QueriesOf("filter")) = (IF gPc = "done" THEN 1 ELSE 0)
        /\ gPc \in {"wrs2", "usgs_bbox", "noaa"} => gCalls[n].src = (IF gPc = "wrs2" THEN "usgs_wrs2" ELSE gPc)

\* an invocation that queried grid references, the box and NOAA has returned
C21_Witness ==
    /\ gPc = "done"
    /\ Len(QueriesOf("usgs_wrs2")) >= 2
    /\ Len(QueriesOf("noaa")) = 1
    /\ gCalls[Len(gCalls)].src = "filter"

\* C22: an invocation given an area ends after at most 45 grid-reference
\* queries (none without use_wrs2), exactly one USGS bbox query and at most
\* one NOAA query
C22_BoundedSourceCalls ==
    (gPc \in {"done", "raised"} /\ gRaised # "input") =>
        /\ Len(QueriesOf("usgs_wrs2")) <= 45
        /\ ~gArgs.use_wrs2 => QueriesOf("usgs_wrs2") = <<>>
        /\ Len(QueriesOf("usgs_bbox")) = 1
        /\ Len(QueriesOf("noaa")) <= 1

\* C27: when NOAA was queried the merged list begins with the deduplicated
\* USGS list, what follows are NOAA records, and none of them has the key
\* of a USGS record; when NOAA was not queried the merged list is the
\* deduplicated USGS list
C27_PrimaryFirst ==
    gPc = "done" =>
        IF QueriesOf("noaa") # <<>>
        THEN /\ Len(gAll) >= Len(gUnique)
             /\ SubSeq(gAll, 1, Len(gUnique)) = gUnique
             /\ \A j \in (Len(gUnique) + 1)..Len(gAll) :
                   /\ \E k \in 1..Len(NoaaPool) : gAll[j] = NoaaPool[k]
                   /\ \A i \in 1..Len(gUnique) :
                         DedupKey(gUnique[i]).kind = "none"
                         \/ DedupKey(gUnique[i]) # DedupKey(gAll[j])
        ELSE gAll = gUnique

\* two USGS records and, after them, a NOAA record
C27_Witness ==
    /\ gPc = "done" /\ QueriesOf("noaa") # <<>>
    /\ Len(gUnique) >= 2 /\ Len(gAll) > Len(gUnique)

C29_ThresholdOverride ==
    /\ [](InvocationBegun =>
            /\ gThreshold = (IF gArgs.min_gcp_threshold.st = "val"
                             THEN gArgs.min_gcp_threshold.v
                             ELSE finderCfg.min_gcp_threshold)
            /\ gArgs.min_gcp_threshold = Num(0) => QueriesOf("noaa") = <<>>)
    /\ [][finderCfg'.min_gcp_threshold = finderCfg.min_gcp_threshold]_vars

\* a second invocation without the argument queries NOAA for want of the
\* constructor's threshold, though one USGS record was found
C29_Witness ==
    /\ gInvocations >= 2 /\ gPc = "noaa"
    /\ gArgs.min_gcp_threshold = NoneN
    /\ gThreshold = finderCfg.min_gcp_threshold
    /\ Len(gUnique) >= 1

(***************************************************************************)
(* Claims about the NOAA client (under SpecNoaa)                           *)
(***************************************************************************)
\* C30: with a loaded cache, for every box and every max_results >= 0,
\* find_gcps_by_bbox returns a list (no mock data) of cached records with
\* lat and lon within the box, bounds included, in the order of the cache,
\* with at most max_results records, and the empty list when no cached
\* record lies in the box
C30_LoadedCacheQuery ==
    LET inside == {i \in 1..Len(nCache.v) :
                      LET lat == Get(nCache.v[i], "lat", NoneN)
                          lon == Get(nCache.v[i], "lon", NoneN)
                      IN  /\ lat.st = "val" /\ lon.st = "val"
                          /\ nBox[1] <= lat.v /\ lat.v <= nBox[3]
                          /\ nBox[2] <= lon.v /\ lon.v <= nBox[4]}
    IN  (nOut.st # "off" /\ nCache.st = "val" /\ nMax >= 0) =>
            /\ nOut.st = "list"
            /\ \E f \in [1..Len(nOut.v) -> inside] :
                  /\ \A j \in 1..Len(nOut.v) : nOut.v[j] = nCache.v[f[j]]
                  /\ \A j, k \in 1..Len(nOut.v) : j < k => f[j] < f[k]
            /\ Len(nOut.v) <= nMax
            /\ inside = {} => nOut.v = <<>>


=============================================================================
